---------------------------- MODULE Spec2Model ----------------------------
(***************************************************************************)
(* Model of the telephony voice pipeline of claude-telegram-relay:         *)
(*   - VoiceActivityDetector (src/src/tts.ts, voice-vad section)           *)
(*   - VoiceSessionManager   (src/unnamed/part_002, voice-session.ts)      *)
(*   - the call orchestrator (src/unnamed/part_003, voice-agent.ts)        *)
(*                                                                         *)
(* Several specifications share the variables below; each specification    *)
(* moves one group of variables and leaves the other groups unchanged.     *)
(***************************************************************************)
EXTENDS Integers, Sequences, FiniteSets, TLC

VARIABLES
  now,        \* Date.now(), in ms since an arbitrary origin
  \* ---- one VoiceActivityDetector driven directly ----
  config,     \* VADConfig handed to the constructor
  vad,        \* the detector's private fields
  res,        \* VADResult of the last process() call
  last,       \* the last operation: its kind, its frame, the fields before it
  steps,      \* number of operations performed so far
  stream,     \* the segment boundaries of the detector so far, in order
  \* ---- the N/M/S segmentation scenario ----
  scen,       \* the scenario being fed: [N, M, S] in ms
  elapsed,    \* ms since the first frame of the scenario
  tally,      \* events counted over the scenario
  \* ---- isCallerAllowed applied to drawn inputs ----
  allowArgs,    \* [phoneNumber, allowedCallers]
  allowResult,  \* [done, value]
  \* ---- the call orchestrator ----
  allowlist,             \* config.security.allowedCallers
  activeSessions,        \* sessionManager.activeSessions: call id -> CallSession
  dailyCallStats,        \* sessionManager.dailyCallStats: phone -> ledger entry
  vadInstances,          \* call id -> detector fields
  sessionRateLimits,     \* call id -> RateLimitStats
  webSocketConnections,  \* call ids that have an entry in the map
  sockets,               \* call ids whose media WebSocket is open
  answering,             \* call.initiated handlers awaiting answerCall: id -> from
  turns,                 \* frame handlers suspended at an await
  invoked,               \* call id -> collaborator invocations, by kind
  progress,              \* which events each call id has had, and what is left
  lastEvent,             \* the last event, when a claim is about it
  \* ---- hasExceededDailyLimit applied to drawn ledgers ----
  limitResult,  \* the last check: [done, phoneNumber, value, before]
  ledgerOps,    \* operations applied to the ledger so far
  \* ---- the rate limiter driven directly ----
  nextSweep,    \* when the rate-limit cleanup timer fires next
  touched,      \* call id -> time of its last checkRateLimit
  lastRate,     \* the last operation on the rate-limit map
  rateOps,      \* checkRateLimit calls made so far
  \* ---- admission of realtime connections ----
  activeWsConnections,  \* the counter of the websocket callbacks
  refused,      \* call ids whose socket was refused; its close callback is due
  \* ---- the session store driven directly ----
  appended,     \* call id -> every message appended since the session began
  lastStore,    \* the last operation on the store and what it returned
  storeOps,     \* operations applied to the store so far
  \* ---- the emergency path of a voice turn ----
  emCall,       \* the turn calling handleEmergency: its text and what it got
  alertTask,    \* the detached sendEmergencyAlert task
  logTask,      \* the detached logEmergencyToCortex task
  \* ---- the mu-law codec applied to drawn buffers ----
  codecPcm,     \* the PCM16 buffer handed to pcm16ToMulaw
  codecMulaw,   \* the mu-law buffer it returned
  codecOut,     \* the PCM16 buffer mulawToPCM16 made of that
  codecStage,   \* "raw", "encoded" or "decoded"
  \* ---- the media sockets of a call, told apart ----
  wsConnOf,     \* webSocketConnections: call id -> the socket it holds
  conns,        \* every socket upgraded so far: its call and its state
  sockLast,     \* the last close callback and the entry it removed
  \* ---- TOTP gate of /rule_modify ----
  totp,         \* the OTPAuth.TOTP object of totp.ts, or "null"
  pendingTOTP,  \* the pending verification, if any
  chatHistory,  \* texts stored in history and forwarded to Claude
  totpLast,     \* the last update handled and the reply it got
  \* ---- the lock file of the relay ----
  lockFile,     \* pid written in bot.lock, 0 when the file is absent
  procs,        \* pid -> the relay process: where it is in acquireLock
  \* ---- one browser test session ----
  bvad,         \* browserVadInstances.get(sessionId): the detector fields
  bbuf,         \* browserAudioBuffers.get(sessionId): frames, by number
  bflight,      \* handlers suspended after speech_end, with their audio
  bframes,      \* audio messages received so far
  bseg,         \* the frames of the open segment, from its speech_start
  blast         \* the last audio message: its event and the buffer before

vadVars   == <<config, vad, res, last, steps, stream>>
scenVars  == <<scen, elapsed, tally>>
allowVars == <<allowArgs, allowResult>>
callVars  == <<allowlist, activeSessions, dailyCallStats, vadInstances,
               sessionRateLimits, webSocketConnections, sockets, answering,
               turns, invoked, progress, lastEvent>>
ledgerVars == <<limitResult, ledgerOps>>
rateVars  == <<nextSweep, touched, lastRate, rateOps>>
wsVars    == <<activeWsConnections, refused>>
storeVars == <<appended, lastStore, storeOps>>
emVars    == <<emCall, alertTask, logTask>>
codecVars == <<codecPcm, codecMulaw, codecOut, codecStage>>
sockVars  == <<wsConnOf, conns, sockLast>>
totpVars  == <<totp, pendingTOTP, chatHistory, totpLast>>
lockVars  == <<lockFile, procs>>
browserVars == <<bvad, bbuf, bflight, bframes, bseg, blast>>
lateVars  == <<emVars, codecVars, sockVars, totpVars, lockVars, browserVars>>
nonWsVars   == <<vadVars, scenVars, allowVars, ledgerVars, rateVars,
                 storeVars, lateVars>>
nonCallVars == <<nonWsVars, wsVars>>
vars      == <<now, vadVars, scenVars, allowVars, callVars, ledgerVars,
               rateVars, wsVars, storeVars, lateVars>>

(***************************************************************************)
(* Bounds of the model                                                     *)
(***************************************************************************)
Epoch    == 1000      \* value of the clock when the model starts
MaxSteps == 4         \* operations on the directly driven detector
FrameMs  == 20        \* audio carried by one scenario frame, and its period

(***************************************************************************)
(* Program constants                                                       *)
(***************************************************************************)
energyThreshold     == 500
silenceDurationMs   == 1500
minSpeechDurationMs == 300
sampleRate          == 8000
maxBufferBytes      == 10 * 1024 * 1024

Abs(x) == IF x < 0 THEN -x ELSE x

(***************************************************************************)
(* Audio.  A frame is a PCM16 buffer of n samples that all have the value  *)
(* s, so its byte length is 2n.  A concatenated buffer is the run-length   *)
(* form of its samples: a sequence of runs [s, n] with n > 0 in which      *)
(* adjacent runs differ in s.                                              *)
(***************************************************************************)
Frame(s, n) == [s |-> s, n |-> n]

ByteLength(frame) == 2 * frame.n

\* The runs of a followed by the runs of b, joined where they meet.
JoinRuns(a, b) ==
  IF a = <<>> THEN b
  ELSE IF b = <<>> THEN a
  ELSE IF a[Len(a)].s = b[1].s
       THEN SubSeq(a, 1, Len(a) - 1)
              \o <<Frame(b[1].s, a[Len(a)].n + b[1].n)>> \o Tail(b)
       ELSE a \o b

RECURSIVE ConcatRange(_, _, _)
ConcatRange(list, lo, hi) ==
  IF lo > hi THEN <<>>
  ELSE IF lo = hi
       THEN IF list[lo].n = 0 THEN <<>> ELSE <<list[lo]>>
       ELSE LET mid == (lo + hi) \div 2
            IN  JoinRuns(ConcatRange(list, lo, mid), ConcatRange(list, mid + 1, hi))

\* Buffer.concat(list): the bytes of the listed buffers, in order.
BufferConcat(list) == ConcatRange(list, 1, Len(list))

RECURSIVE RunsBytes(_)
RunsBytes(runs) ==
  IF runs = <<>> THEN 0 ELSE ByteLength(Head(runs)) + RunsBytes(Tail(runs))

NullAudio   == [isNull |-> TRUE,  runs |-> <<>>]
Audio(runs) == [isNull |-> FALSE, runs |-> runs]

\* Playing time of a buffer of 16-bit mono samples at sampleRate.
AudioMs(bytes) == (bytes * 1000) \div (2 * sampleRate)

(***************************************************************************)
(* VoiceActivityDetector                                                   *)
(***************************************************************************)
DefaultVADConfig ==
  [energyThreshold     |-> energyThreshold,
   silenceDurationMs   |-> silenceDurationMs,
   minSpeechDurationMs |-> minSpeechDurationMs,
   sampleRate          |-> sampleRate]

\* A configuration whose minimum speech duration exceeds its silence duration.
ShortSilenceVADConfig ==
  [energyThreshold     |-> energyThreshold,
   silenceDurationMs   |-> minSpeechDurationMs,
   minSpeechDurationMs |-> silenceDurationMs,
   sampleRate          |-> sampleRate]

NewVAD ==
  [isSpeaking      |-> FALSE,
   speechStartTime |-> 0,
   lastSpeechTime  |-> 0,
   audioBuffer     |-> <<>>,
   audioBufferSize |-> 0]

\* RMS of the samples: sqrt(sum of squares / samples).  Every sample of a
\* frame is s, so the mean square is s*s and the root is |s|.
calculateEnergy(buffer) ==
  IF ByteLength(buffer) = 0 THEN 0 ELSE Abs(buffer.s)

\* Idle and loud: the segment starts with this chunk.
SpeechStartedMissingSeed(v, audioChunk, t) ==
  [v EXCEPT !.isSpeaking = TRUE, !.speechStartTime = t,
            !.lastSpeechTime = t]

SpeechStarted(v, audioChunk, t) ==
  [v EXCEPT !.isSpeaking      = TRUE,
            !.speechStartTime = t,
            !.lastSpeechTime  = t,
            !.audioBuffer     = <<audioChunk>>,
            !.audioBufferSize = ByteLength(audioChunk)]

\* Speaking: push the chunk unless the buffer would pass maxBufferBytes.
PushChunkUncapped(v, audioChunk) ==
  [v EXCEPT !.audioBuffer     = Append(@, audioChunk),
            !.audioBufferSize = @ + ByteLength(audioChunk)]

PushChunk(v, audioChunk) ==
  IF v.audioBufferSize + ByteLength(audioChunk) > maxBufferBytes
  THEN v
  ELSE [v EXCEPT !.audioBuffer     = Append(@, audioChunk),
                 !.audioBufferSize = @ + ByteLength(audioChunk)]

\* Speaking, quiet, and the silence has lasted long enough.
SpeechEndedKeepsBuffer(cfg, v, t) ==
  [vad |-> [v EXCEPT !.isSpeaking = FALSE],
   res |-> IF t - v.speechStartTime >= cfg.minSpeechDurationMs
           THEN [event |-> "speech_end",
                 audioBuffer |-> Audio(BufferConcat(v.audioBuffer))]
           ELSE [event |-> "null", audioBuffer |-> NullAudio]]

SpeechEnded(cfg, v, t) ==
  LET speechDuration == t - v.speechStartTime
  IN  [vad |-> [v EXCEPT !.isSpeaking      = FALSE,
                         !.audioBuffer     = <<>>,
                         !.audioBufferSize = 0],
       res |-> IF speechDuration >= cfg.minSpeechDurationMs
               THEN [event       |-> "speech_end",
                     audioBuffer |-> Audio(BufferConcat(v.audioBuffer))]
               ELSE [event |-> "null", audioBuffer |-> NullAudio]]

\* Speaking and quiet: the segment ends, or the pause is buffered.
SilenceWhileSpeakingNeverEnds(cfg, v, audioChunk, t) ==
  [vad |-> PushChunk(v, audioChunk),
   res |-> [event |-> "speaking", audioBuffer |-> NullAudio]]

SilenceWhileSpeaking(cfg, v, audioChunk, t) ==
  LET silenceDuration == t - v.lastSpeechTime
  IN  IF silenceDuration >= cfg.silenceDurationMs
      THEN SpeechEnded(cfg, v, t)
      ELSE [vad |-> PushChunk(v, audioChunk),
            res |-> [event |-> "speaking", audioBuffer |-> NullAudio]]

\* The chunk is loud (energy above the threshold).
LoudFrameAlwaysStarts(v, audioChunk, t) ==
  [vad |-> SpeechStarted(v, audioChunk, t),
   res |-> [event |-> "speech_start", audioBuffer |-> NullAudio]]

LoudFrame(v, audioChunk, t) ==
  IF ~v.isSpeaking
  THEN [vad |-> SpeechStarted(v, audioChunk, t),
        res |-> [event |-> "speech_start", audioBuffer |-> NullAudio]]
  ELSE [vad |-> PushChunk([v EXCEPT !.lastSpeechTime = t], audioChunk),
        res |-> [event |-> "speaking", audioBuffer |-> NullAudio]]

\* The chunk is quiet (energy at or below the threshold).
QuietFrameUnguarded(cfg, v, audioChunk, t) ==
  SilenceWhileSpeaking(cfg, v, audioChunk, t)

QuietFrame(cfg, v, audioChunk, t) ==
  IF v.isSpeaking
  THEN SilenceWhileSpeaking(cfg, v, audioChunk, t)
  ELSE [vad |-> v, res |-> [event |-> "null", audioBuffer |-> NullAudio]]

\* process(audioChunk) at time t: the fields after it and the VADResult.
VadProcess(cfg, v, audioChunk, t) ==
  LET energy         == calculateEnergy(audioChunk)
      isSpeechEnergy == energy > cfg.energyThreshold
      out == IF isSpeechEnergy
             THEN LoudFrame(v, audioChunk, t)
             ELSE QuietFrame(cfg, v, audioChunk, t)
  IN  [vad |-> out.vad,
       res |-> [event       |-> out.res.event,
                energy      |-> energy,
                audioBuffer |-> out.res.audioBuffer]]

\* reset(): every field is set back to its initial value.
VadResetBufferOnly(v) ==
  [v EXCEPT !.audioBuffer = <<>>, !.audioBufferSize = 0]

VadReset(v) == NewVAD

NoResult == [event |-> "null", energy |-> 0, audioBuffer |-> NullAudio]

(***************************************************************************)
(* Values of the variable groups a specification does not use              *)
(***************************************************************************)
EmptyMap == <<>>

NoProgress ==
  [initiated |-> {}, rejected |-> {}, answered |-> {}, hungUp |-> {},
   frames |-> 0, elapsed |-> {}]
NoEvent    == [op |-> "none", id |-> "none", hadSession |-> FALSE,
               ignored |-> FALSE]

NoLimitResult ==
  [done |-> FALSE, phoneNumber |-> "none", value |-> FALSE, before |-> EmptyMap]
NoRateOp == [op |-> "none"]
NoStoreOp == [op |-> "none"]

LedgerUnused ==
  /\ limitResult = NoLimitResult
  /\ ledgerOps = 0

RateUnused ==
  /\ nextSweep = 0
  /\ touched = EmptyMap
  /\ lastRate = NoRateOp
  /\ rateOps = 0

WsUnused ==
  /\ activeWsConnections = 0
  /\ refused = {}

StoreUnused ==
  /\ appended = EmptyMap
  /\ lastStore = NoStoreOp
  /\ storeOps = 0

NoDetection ==
  [isEmergency |-> FALSE, severity |-> "none", detectedPhrases |-> <<>>,
   language |-> "unknown", requiresConfirmation |-> FALSE]
NoEmCall ==
  [stage |-> "idle", text |-> <<>>, detection |-> NoDetection,
   response |-> "null"]
NoAlertTask ==
  [state |-> "none", attempt |-> 0, wakeAt |-> 0, waits |-> <<>>,
   logged |-> 0, ok |-> FALSE]
NoLogTask == [state |-> "none", logged |-> 0]

EmUnused ==
  /\ emCall = NoEmCall
  /\ alertTask = NoAlertTask
  /\ logTask = NoLogTask

CodecUnused ==
  /\ codecPcm = <<>>
  /\ codecMulaw = <<>>
  /\ codecOut = <<>>
  /\ codecStage = "raw"

SockUnused ==
  /\ wsConnOf = EmptyMap
  /\ conns = <<>>
  /\ sockLast = [op |-> "none"]

NoPending == [pending |-> FALSE, ruleId |-> "none", expiresAt |-> 0]

TotpUnused ==
  /\ totp = "null"
  /\ pendingTOTP = NoPending
  /\ chatHistory = <<>>
  /\ totpLast = [op |-> "none"]

LockUnused ==
  /\ lockFile = 0
  /\ procs = EmptyMap

BrowserUnused ==
  /\ bvad = NewVAD
  /\ bbuf = <<>>
  /\ bflight = <<>>
  /\ bframes = 0
  /\ bseg = <<>>
  /\ blast = [op |-> "none"]

LateUnused ==
  /\ EmUnused
  /\ CodecUnused
  /\ SockUnused
  /\ TotpUnused
  /\ LockUnused
  /\ BrowserUnused

AllowUnused ==
  /\ allowArgs = [phoneNumber |-> "none", allowedCallers |-> <<>>]
  /\ allowResult = [done |-> FALSE, value |-> FALSE]

CallUnused ==
  /\ allowlist = <<>>
  /\ activeSessions = EmptyMap
  /\ dailyCallStats = EmptyMap
  /\ vadInstances = EmptyMap
  /\ sessionRateLimits = EmptyMap
  /\ webSocketConnections = {}
  /\ sockets = {}
  /\ answering = EmptyMap
  /\ turns = <<>>
  /\ invoked = EmptyMap
  /\ progress = NoProgress
  /\ lastEvent = NoEvent

(***************************************************************************)
(* Specification SpecVAD: one detector, any frames, any clock steps        *)
(***************************************************************************)
FrameSamples == (sampleRate * FrameMs) \div 1000

SilentFrame    == Frame(0, FrameSamples)
ThresholdFrame == Frame(energyThreshold, FrameSamples)
LoudFrameSmall == Frame(energyThreshold + 1, FrameSamples)
EmptyFrame     == Frame(0, 0)
\* Two of these fill the buffer to maxBufferBytes exactly.
HalfCapFrame   == Frame(-(energyThreshold + 1), maxBufferBytes \div 4)
\* One chunk that is by itself longer than maxBufferBytes.
OverCapFrame   == Frame(energyThreshold + 1, maxBufferBytes \div 2 + 1)

VADFrames ==
  {SilentFrame, ThresholdFrame, LoudFrameSmall, EmptyFrame, HalfCapFrame,
   OverCapFrame}

VADConfigs == {DefaultVADConfig, ShortSilenceVADConfig}

\* Time that passes between two calls.
Delays == {FrameMs, minSpeechDurationMs, silenceDurationMs}

NoScenario == [N |-> 0, M |-> 0, S |-> 0]
NoTally ==
  [nStart |-> 0, nSpeaking |-> 0, nEnd |-> 0, nLoud |-> 0, loudSpeaking |-> 0,
   firstLoudAt |-> -1, startAt |-> -1, endRuns |-> <<>>]

InitVAD ==
  /\ now = Epoch
  /\ config \in VADConfigs
  /\ vad = NewVAD
  /\ res = NoResult
  /\ last = [op |-> "new", frame |-> EmptyFrame, pre |-> NewVAD]
  /\ steps = 0
  /\ stream = <<>>
  /\ scen = NoScenario
  /\ elapsed = 0
  /\ tally = NoTally
  /\ AllowUnused
  /\ WsUnused
  /\ StoreUnused
  /\ LateUnused
  /\ CallUnused
  /\ LedgerUnused
  /\ RateUnused

\* What a process() call adds to the record of segment boundaries: its
\* event when that is speech_start or speech_end, and "dropped" when it
\* closes a segment without an event.
Boundary(v, out) ==
  IF out.res.event \in {"speech_start", "speech_end"} THEN <<out.res.event>>
  ELSE IF v.isSpeaking /\ ~out.vad.isSpeaking THEN <<"dropped">>
  ELSE <<>>

Process(audioChunk, dt) ==
  /\ steps < MaxSteps
  /\ now' = now + dt
  /\ LET out == VadProcess(config, vad, audioChunk, now')
     IN  /\ vad' = out.vad
         /\ res' = out.res
  /\ last' = [op |-> "process", frame |-> audioChunk, pre |-> vad]
  /\ steps' = steps + 1
  /\ stream' = stream \o Boundary(vad, VadProcess(config, vad, audioChunk,
                                                    now'))
  /\ UNCHANGED <<config, scenVars, allowVars, ledgerVars, rateVars, wsVars,
                 storeVars, lateVars, callVars>>

Reset ==
  /\ steps < MaxSteps
  /\ vad' = VadReset(vad)
  /\ last' = [op |-> "reset", frame |-> EmptyFrame, pre |-> vad]
  /\ steps' = steps + 1
  /\ stream' = stream \o (IF vad.isSpeaking THEN <<"reset">> ELSE <<>>)
  /\ UNCHANGED <<now, config, res, scenVars, allowVars, ledgerVars, rateVars,
                 wsVars, storeVars, lateVars, callVars>>

NextVAD ==
  \/ \E audioChunk \in VADFrames, dt \in Delays : Process(audioChunk, dt)
  \/ Reset

SpecVAD == InitVAD /\ [][NextVAD]_vars

(***************************************************************************)
(* Properties of the detector under SpecVAD.  After Process, now is the    *)
(* time the call read, last.frame its chunk, last.pre the fields before.   *)
(***************************************************************************)
IsLoud(f)    == calculateEnergy(f) > config.energyThreshold
Processed    == last.op = "process"
WasSpeaking  == last.pre.isSpeaking
SilenceSince == now - last.pre.lastSpeechTime
SegmentAge   == now - last.pre.speechStartTime
EndsSegment  == ~IsLoud(last.frame) /\ SilenceSince >= config.silenceDurationMs
Overflows    == last.pre.audioBufferSize + ByteLength(last.frame) > maxBufferBytes

\* C1: after any sequence of process(frame) and reset() calls, with frames of
\* any size, audioBufferSize never exceeds 10 MiB.
C1_BufferNeverExceedsCap == vad.audioBufferSize <= maxBufferBytes

\* C4: Speaking, a quiet frame, silence >= silenceDurationMs: the detector is
\* Idle with buffer and byte count cleared; the result is speech_end with the
\* in-order concatenation of the buffered frames when the segment lasted at
\* least minSpeechDurationMs, and otherwise has no event and no audio.
C4_SegmentEnd ==
  (Processed /\ WasSpeaking /\ EndsSegment) =>
    /\ ~vad.isSpeaking
    /\ vad.audioBuffer = <<>>
    /\ vad.audioBufferSize = 0
    /\ IF SegmentAge >= config.minSpeechDurationMs
       THEN /\ res.event = "speech_end"
            /\ ~res.audioBuffer.isNull
            /\ res.audioBuffer.runs = BufferConcat(last.pre.audioBuffer)
            /\ RunsBytes(res.audioBuffer.runs) = last.pre.audioBufferSize
       ELSE /\ res.event = "null"
            /\ res.audioBuffer.isNull

C4_Witness ==
  /\ Processed /\ WasSpeaking /\ EndsSegment
  /\ res.event = "speech_end"
  /\ Len(last.pre.audioBuffer) >= 2
  /\ Len(res.audioBuffer.runs) >= 2

\* The other outcome of C4: a segment too short to be reported.
C4_TooShortReached ==
  /\ Processed /\ WasSpeaking /\ EndsSegment
  /\ SegmentAge < config.minSpeechDurationMs

\* C5: Idle and a loud frame: the detector is Speaking, its buffer is exactly
\* that one frame, and the event is speech_start.
C5_SpeechStart ==
  (Processed /\ ~WasSpeaking /\ IsLoud(last.frame)) =>
    /\ vad.isSpeaking
    /\ vad.audioBuffer = <<last.frame>>
    /\ vad.audioBufferSize = ByteLength(last.frame)
    /\ vad.speechStartTime = now
    /\ res.event = "speech_start"
    /\ res.audioBuffer.isNull

C5_Witness ==
  /\ Processed /\ ~WasSpeaking /\ IsLoud(last.frame)
  /\ res.event = "speech_start"
  /\ steps >= 2

\* C6: Idle and a frame with energy at or below the threshold: no event, no
\* audio, and every field of the detector is as it was.
C6_IdleQuietNoChange ==
  (Processed /\ ~WasSpeaking /\ ~IsLoud(last.frame)) =>
    /\ res.event = "null"
    /\ res.audioBuffer.isNull
    /\ vad = last.pre

C6_Witness ==
  /\ Processed /\ ~WasSpeaking /\ last.frame = ThresholdFrame
  /\ res.energy = config.energyThreshold
  /\ steps >= 2

\* C7: Speaking and a frame that does not end the segment: the event is
\* speaking, the detector stays Speaking, and the frame is appended unless
\* that would pass the 10 MiB cap, in which case the buffer is unchanged.
C7_SpeakingContinues ==
  (Processed /\ WasSpeaking /\ ~EndsSegment) =>
    /\ res.event = "speaking"
    /\ res.audioBuffer.isNull
    /\ vad.isSpeaking
    /\ IF Overflows
       THEN /\ vad.audioBuffer = last.pre.audioBuffer
            /\ vad.audioBufferSize = last.pre.audioBufferSize
       ELSE /\ vad.audioBuffer = Append(last.pre.audioBuffer, last.frame)
            /\ vad.audioBufferSize =
                 last.pre.audioBufferSize + ByteLength(last.frame)

C7_Witness ==
  /\ Processed /\ WasSpeaking /\ ~EndsSegment
  /\ Overflows
  /\ last.pre.audioBufferSize <= maxBufferBytes
  /\ res.event = "speaking"

\* The two other cases of C7: a loud frame and a short pause, both appended.
C7_LoudAppended  == Processed /\ WasSpeaking /\ IsLoud(last.frame) /\ ~Overflows
C7_PauseAppended ==
  Processed /\ WasSpeaking /\ ~IsLoud(last.frame) /\ ~EndsSegment /\ ~Overflows

\* C30: reset(), from any state of the detector, leaves it idle with an empty
\* buffer, a byte count of 0 and both segment timestamps cleared, and a loud
\* frame that follows it produces speech_start.
C30_ResetForcesIdle ==
  [][/\ (last'.op = "reset") =>
          /\ ~vad'.isSpeaking
          /\ vad'.audioBuffer = <<>>
          /\ vad'.audioBufferSize = 0
          /\ vad'.speechStartTime = 0
          /\ vad'.lastSpeechTime = 0
     /\ (last.op = "reset" /\ last'.op = "process" /\ IsLoud(last'.frame)) =>
          /\ res'.event = "speech_start"
          /\ vad'.isSpeaking
          /\ vad'.audioBuffer = <<last'.frame>>]_vars

\* reset() in the middle of a segment, with audio in the buffer.
C30_Witness ==
  /\ last.op = "reset"
  /\ last.pre.isSpeaking
  /\ last.pre.audioBufferSize > 0
  /\ last.pre.speechStartTime > 0
  /\ vad = NewVAD

\* reset() of a detector that was idle already, after a segment.
C30_IdleReset ==
  /\ last.op = "reset"
  /\ ~last.pre.isSpeaking
  /\ last.pre.lastSpeechTime > 0

\* ---- the stream of events of one detector ----
SegmentEnds == {"speech_end", "dropped", "reset"}
ProcessStep == last'.op = "process" /\ steps' = steps + 1

\* C38: in the events of one detector speech_start and the ends of segments
\* alternate: speech_start comes only from Idle and speech_end only from
\* Speaking, the boundary before a speech_end is a speech_start, a speaking
\* event comes only inside a segment, and the result carries an audio
\* buffer exactly when its event is speech_end
C38_EventsAlternate ==
  /\ [](\A i \in 1..Len(stream) :
          /\ (i % 2 = 1) => stream[i] = "speech_start"
          /\ (i % 2 = 0) => stream[i] \in SegmentEnds
          /\ stream[i] = "speech_end" => (i > 1 /\ stream[i - 1] = "speech_start"))
  /\ [](vad.isSpeaking <=> (Len(stream) % 2 = 1))
  /\ [][ProcessStep =>
          /\ res'.event = "speech_start" => (~vad.isSpeaking /\ vad'.isSpeaking)
          /\ res'.event = "speech_end" => (vad.isSpeaking /\ ~vad'.isSpeaking)
          /\ res'.event = "speaking" => (vad.isSpeaking /\ vad'.isSpeaking)
          /\ (~res'.audioBuffer.isNull) <=> (res'.event = "speech_end")]_vars

\* two segments, each begun and ended
C38_TwoSegments ==
  stream = <<"speech_start", "speech_end", "speech_start", "speech_end">>

\* a segment dropped for being short, then one that begins and ends
C38_AfterDropped ==
  stream = <<"speech_start", "dropped", "speech_start", "speech_end">>

\* a segment cut by reset(), then a new one
C38_AfterReset ==
  /\ stream = <<"speech_start", "reset", "speech_start">>
  /\ res.event = "speech_start"

(***************************************************************************)
(* Specification SpecScenario: N ms of quiet frames, then M ms of loud     *)
(* frames, then S ms of quiet frames, one frame of FrameMs every FrameMs.  *)
(***************************************************************************)
ScenN == {0, 2000}
ScenM == {20, 100, 300, 1000}
ScenS == {silenceDurationMs, 2000}

Scenarios == [N : ScenN, M : ScenM, S : ScenS]

ScenTotal == scen.N + scen.M + scen.S
ScenDone  == elapsed >= ScenTotal

\* The frame the scenario feeds at the given offset.
ScenFrame(at) ==
  IF scen.N <= at /\ at < scen.N + scen.M THEN LoudFrameSmall ELSE SilentFrame

InitScenario ==
  /\ now = Epoch
  /\ config \in VADConfigs
  /\ vad = NewVAD
  /\ res = NoResult
  /\ last = [op |-> "new", frame |-> EmptyFrame, pre |-> NewVAD]
  /\ steps = 0
  /\ stream = <<>>
  /\ scen \in Scenarios
  /\ elapsed = 0
  /\ tally = NoTally
  /\ AllowUnused
  /\ WsUnused
  /\ StoreUnused
  /\ LateUnused
  /\ CallUnused
  /\ LedgerUnused
  /\ RateUnused

Count(b) == IF b THEN 1 ELSE 0

Feed ==
  /\ ~ScenDone
  /\ now' = Epoch + elapsed
  /\ LET audioChunk == ScenFrame(elapsed)
         loud       == calculateEnergy(audioChunk) > config.energyThreshold
         out        == VadProcess(config, vad, audioChunk, now')
         ev         == out.res.event
     IN  /\ vad' = out.vad
         /\ res' = out.res
         /\ last' = [op |-> "process", frame |-> audioChunk, pre |-> vad]
         /\ tally' =
              [nStart       |-> tally.nStart + Count(ev = "speech_start"),
               nSpeaking    |-> tally.nSpeaking + Count(ev = "speaking"),
               nEnd         |-> tally.nEnd + Count(ev = "speech_end"),
               nLoud        |-> tally.nLoud + Count(loud),
               loudSpeaking |-> tally.loudSpeaking + Count(loud /\ ev = "speaking"),
               firstLoudAt  |-> IF loud /\ tally.firstLoudAt < 0
                                THEN elapsed ELSE tally.firstLoudAt,
               startAt      |-> IF ev = "speech_start" /\ tally.startAt < 0
                                THEN elapsed ELSE tally.startAt,
               endRuns      |-> IF ev = "speech_end"
                                THEN out.res.audioBuffer.runs ELSE tally.endRuns]
  /\ elapsed' = elapsed + FrameMs
  /\ UNCHANGED <<config, steps, stream, scen, allowVars, ledgerVars,
                 rateVars, wsVars,
                 storeVars, lateVars, callVars>>

NextScenario == Feed

SpecScenario == InitScenario /\ [][NextScenario]_vars

\* C2: N ms quiet, M ms loud, S ms quiet (S >= silenceDurationMs) yields exactly
\* one speech_start, one or more speaking, and exactly one speech_end if
\* M >= minSpeechDurationMs, zero speech_end if M < minSpeechDurationMs.
C2_Segmentation ==
  ScenDone =>
    /\ tally.nStart = 1
    /\ tally.nSpeaking >= 1
    /\ (scen.M >= config.minSpeechDurationMs => tally.nEnd = 1)
    /\ (scen.M <  config.minSpeechDurationMs => tally.nEnd = 0)

\* The parts of C2 other than the absence of speech_end for a short M.
C2_OtherParts ==
  ScenDone =>
    /\ tally.nStart = 1
    /\ tally.nSpeaking >= 1
    /\ (scen.M >= config.minSpeechDurationMs => tally.nEnd = 1)

\* What decides speech_end in the code: the time from the first loud frame to
\* the quiet frame that ends the segment, trailing silence included.
C2_EndDecidedBySegmentAge ==
  (Processed /\ WasSpeaking /\ EndsSegment) =>
    (res.event = "speech_end" <=> SegmentAge >= config.minSpeechDurationMs)

ScenC3 == [N |-> 2000, M |-> 1000, S |-> 2000]
IsC3   == config = DefaultVADConfig /\ scen = ScenC3

RunMs(run) == AudioMs(ByteLength(run))

C3_Events ==
  /\ tally.nStart = 1
  /\ tally.startAt = tally.firstLoudAt
  /\ scen.N <= tally.startAt /\ tally.startAt < scen.N + FrameMs
  /\ tally.nLoud >= 2
  /\ tally.loudSpeaking = tally.nLoud - 1
  /\ tally.nEnd = 1
  /\ ~vad.isSpeaking
  /\ vad.audioBuffer = <<>>
  /\ vad.audioBufferSize = 0

\* C3 as amended: silence(2 s), speech(1 s), silence(2 s) with the default
\* thresholds yields speech_start on the first loud frame, speaking on every
\* later loud frame, and exactly one speech_end whose audio is the 1 s of loud
\* frames followed by the quiet frames that arrived less than
\* silenceDurationMs after the last loud frame (about 2.5 s in all); then the
\* detector is Idle with an empty buffer.
C3_EndToEnd ==
  (IsC3 /\ ScenDone) =>
    /\ C3_Events
    /\ Len(tally.endRuns) = 2
    /\ tally.endRuns[1].s = LoudFrameSmall.s
    /\ RunMs(tally.endRuns[1]) = tally.nLoud * FrameMs
    /\ scen.M - FrameMs < RunMs(tally.endRuns[1])
    /\ RunMs(tally.endRuns[1]) < scen.M + FrameMs
    /\ tally.endRuns[2].s = SilentFrame.s
    /\ silenceDurationMs - FrameMs <= RunMs(tally.endRuns[2])
    /\ RunMs(tally.endRuns[2]) < silenceDurationMs

C3_Witness ==
  /\ IsC3 /\ ScenDone
  /\ tally.nEnd = 1
  /\ Len(tally.endRuns) = 2

\* C3 as written: the audio of the speech_end is about 1 s long (within a
\* quarter of M).
C3_AudioAboutOneSecond ==
  (IsC3 /\ ScenDone) =>
    /\ C3_Events
    /\ 4 * AudioMs(RunsBytes(tally.endRuns)) <= 5 * scen.M
    /\ 4 * AudioMs(RunsBytes(tally.endRuns)) >= 3 * scen.M

(***************************************************************************)
(* Maps.  A Map is a function whose domain is the set of its keys.         *)
(***************************************************************************)
MapHas(m, k)    == k \in DOMAIN m
MapSet(m, k, v) == [x \in DOMAIN m \cup {k} |-> IF x = k THEN v ELSE m[x]]
MapDelete(m, k) == [x \in DOMAIN m \ {k} |-> m[x]]

(***************************************************************************)
(* VoiceSessionManager                                                     *)
(***************************************************************************)
maxDailyCallsPerNumber == 50
dayInMs          == 24 * 60 * 60 * 1000
staleThresholdMs == 5 * 60 * 1000
MaxHistory       == 40

\* allowedCallers.includes(phoneNumber)
Includes(list, x) == \E i \in 1..Len(list) : list[i] = x

isCallerAllowedFailOpen(phoneNumber, allowedCallers) ==
  IF Len(allowedCallers) = 0 THEN TRUE ELSE Includes(allowedCallers, phoneNumber)

isCallerAllowed(phoneNumber, allowedCallers) ==
  IF Len(allowedCallers) = 0
  THEN FALSE
  ELSE Includes(allowedCallers, phoneNumber)

\* The ledger after the check and the value returned.
hasExceededDailyLimitNeverResets(stats, phoneNumber, maxDailyCalls, t) ==
  IF ~MapHas(stats, phoneNumber)
  THEN [stats |-> stats, result |-> FALSE]
  ELSE [stats  |-> stats,
        result |-> stats[phoneNumber].count >= maxDailyCalls]

hasExceededDailyLimit(stats, phoneNumber, maxDailyCalls, t) ==
  IF ~MapHas(stats, phoneNumber)
  THEN [stats |-> stats, result |-> FALSE]
  ELSE IF t - stats[phoneNumber].lastReset > dayInMs
       THEN [stats  |-> MapSet(stats, phoneNumber, [count |-> 0, lastReset |-> t]),
             result |-> FALSE]
       ELSE [stats  |-> stats,
             result |-> stats[phoneNumber].count >= maxDailyCalls]

incrementDailyCallCount(stats, phoneNumber, t) ==
  IF ~MapHas(stats, phoneNumber)
  THEN MapSet(stats, phoneNumber, [count |-> 1, lastReset |-> t])
  ELSE [stats EXCEPT ![phoneNumber].count = @ + 1]

\* The session map and the ledger after createSession.
createSession(sessions, stats, callControlId, phoneNumber, t) ==
  [sessions |-> MapSet(sessions, callControlId,
                  [callControlId       |-> callControlId,
                   phoneNumber         |-> phoneNumber,
                   startTime           |-> t,
                   lastActivity        |-> t,
                   conversationHistory |-> <<>>,
                   callDurationMs      |-> 0]),
   stats    |-> incrementDailyCallCount(stats, phoneNumber, t)]

\* The session stored for the id, or undefined.
getSessionAlwaysFinds(sessions, callControlId) ==
  [found |-> TRUE,
   session |-> IF MapHas(sessions, callControlId) THEN sessions[callControlId]
               ELSE "created"]

getSession(sessions, callControlId) ==
  IF MapHas(sessions, callControlId)
  THEN [found |-> TRUE, session |-> sessions[callControlId]]
  ELSE [found |-> FALSE]

\* slice(-k): the last k elements.
SliceLast(seq, k) ==
  IF Len(seq) <= k THEN seq ELSE SubSeq(seq, Len(seq) - k + 1, Len(seq))

\* addMessage: push, cut to the last 40, touch lastActivity.
addMessageKeepsOldest(sessions, callControlId, role, content, t) ==
  IF ~MapHas(sessions, callControlId)
  THEN sessions
  ELSE LET pushed == Append(sessions[callControlId].conversationHistory,
                            [role |-> role, content |-> content, timestamp |-> t])
       IN  [sessions EXCEPT
              ![callControlId].conversationHistory =
                 IF Len(pushed) > MaxHistory THEN SubSeq(pushed, 1, MaxHistory)
                 ELSE pushed,
              ![callControlId].lastActivity = t]

addMessage(sessions, callControlId, role, content, t) ==
  IF ~MapHas(sessions, callControlId)
  THEN sessions
  ELSE LET pushed == Append(sessions[callControlId].conversationHistory,
                            [role |-> role, content |-> content, timestamp |-> t])
       IN  [sessions EXCEPT
              ![callControlId].conversationHistory =
                 IF Len(pushed) > MaxHistory THEN SliceLast(pushed, MaxHistory)
                 ELSE pushed,
              ![callControlId].lastActivity = t]

\* The entries of the history as handed to the model: role and content.
getConversationHistory(sessions, callControlId) ==
  IF ~MapHas(sessions, callControlId)
  THEN <<>>
  ELSE LET history == sessions[callControlId].conversationHistory
       IN  [i \in 1..Len(history) |->
              [role |-> history[i].role, content |-> history[i].content]]

\* The session map after endSession; the session returned is getSession's.
endSessionKeepsSession(sessions, callControlId) == sessions

endSession(sessions, callControlId) == MapDelete(sessions, callControlId)

\* Idle for longer than the threshold.
IsStaleAtThreshold(session, t) == t - session.lastActivity >= staleThresholdMs

IsStale(session, t) == t - session.lastActivity > staleThresholdMs

\* The number cleanupStaleSessions returns.
cleanedSessions(sessions, t) ==
  Cardinality({k \in DOMAIN sessions : IsStale(sessions[k], t)})

cleanupStaleSessions(sessions, t) ==
  [x \in {k \in DOMAIN sessions : ~IsStale(sessions[k], t)} |-> sessions[x]]

(***************************************************************************)
(* Rate limiter (voice-agent.ts)                                           *)
(***************************************************************************)
MAX_STT_PER_SESSION_PER_MINUTE == 30
MAX_TTS_PER_SESSION_PER_MINUTE == 50
rateWindowMs == 60000     \* a window is over when it is older than this
ratePurgeMs  == 300000    \* the cleanup deletes a window older than this
rateSweepMs  == 60000     \* period of the cleanup timer

\* The rate-limit map after the check and the value returned.
checkRateLimitOneTooMany(limits, sessionId, type, t) ==
  LET fresh   == ~MapHas(limits, sessionId)
                 \/ t - limits[sessionId].windowStart > rateWindowMs
      stats   == IF fresh
                 THEN [sttCount |-> 0, ttsCount |-> 0, windowStart |-> t]
                 ELSE limits[sessionId]
      stored  == IF fresh THEN MapSet(limits, sessionId, stats) ELSE limits
      maxCount     == IF type = "stt" THEN MAX_STT_PER_SESSION_PER_MINUTE
                      ELSE MAX_TTS_PER_SESSION_PER_MINUTE
      currentCount == IF type = "stt" THEN stats.sttCount ELSE stats.ttsCount
  IN  IF currentCount > maxCount
      THEN [limits |-> stored, ok |-> FALSE]
      ELSE [limits |-> IF type = "stt"
                       THEN [stored EXCEPT ![sessionId].sttCount = @ + 1]
                       ELSE [stored EXCEPT ![sessionId].ttsCount = @ + 1],
            ok     |-> TRUE]

checkRateLimit(limits, sessionId, type, t) ==
  LET fresh   == ~MapHas(limits, sessionId)
                 \/ t - limits[sessionId].windowStart > rateWindowMs
      stats   == IF fresh
                 THEN [sttCount |-> 0, ttsCount |-> 0, windowStart |-> t]
                 ELSE limits[sessionId]
      stored  == IF fresh THEN MapSet(limits, sessionId, stats) ELSE limits
      maxCount     == IF type = "stt" THEN MAX_STT_PER_SESSION_PER_MINUTE
                      ELSE MAX_TTS_PER_SESSION_PER_MINUTE
      currentCount == IF type = "stt" THEN stats.sttCount ELSE stats.ttsCount
  IN  IF currentCount >= maxCount
      THEN [limits |-> stored, ok |-> FALSE]
      ELSE [limits |-> IF type = "stt"
                       THEN [stored EXCEPT ![sessionId].sttCount = @ + 1]
                       ELSE [stored EXCEPT ![sessionId].ttsCount = @ + 1],
            ok     |-> TRUE]

\* The body of the cleanup timer: windows older than ratePurgeMs are deleted,
\* other windows that are over are started again at the time of the sweep.
cleanupRateLimits(limits, t) ==
  [x \in {k \in DOMAIN limits : ~(t - limits[k].windowStart > ratePurgeMs)} |->
     IF t - limits[x].windowStart > rateWindowMs
     THEN [sttCount |-> 0, ttsCount |-> 0, windowStart |-> t]
     ELSE limits[x]]

(***************************************************************************)
(* Specification SpecAllow: isCallerAllowed on drawn inputs                *)
(***************************************************************************)
MaxAllowLen == 3

Phones == {"+40700000001", "+40700000002", "+40700000003"}

RECURSIVE SeqsUpTo(_, _)
SeqsUpTo(S, n) ==
  IF n = 0 THEN {<<>>}
  ELSE LET shorter == SeqsUpTo(S, n - 1)
       IN  shorter \cup {Append(q, x) : q \in {r \in shorter : Len(r) = n - 1}, x \in S}

Allowlists == SeqsUpTo(Phones, MaxAllowLen)

VadUnused ==
  /\ config = DefaultVADConfig
  /\ vad = NewVAD
  /\ res = NoResult
  /\ last = [op |-> "new", frame |-> EmptyFrame, pre |-> NewVAD]
  /\ steps = 0
  /\ stream = <<>>

ScenUnused ==
  /\ scen = NoScenario
  /\ elapsed = 0
  /\ tally = NoTally

InitAllow ==
  /\ now = Epoch
  /\ VadUnused
  /\ ScenUnused
  /\ WsUnused
  /\ StoreUnused
  /\ LateUnused
  /\ CallUnused
  /\ LedgerUnused
  /\ RateUnused
  /\ allowArgs \in [phoneNumber : Phones, allowedCallers : Allowlists]
  /\ allowResult = [done |-> FALSE, value |-> FALSE]

CheckCaller ==
  /\ ~allowResult.done
  /\ allowResult' =
       [done  |-> TRUE,
        value |-> isCallerAllowed(allowArgs.phoneNumber, allowArgs.allowedCallers)]
  /\ UNCHANGED <<now, vadVars, scenVars, callVars, ledgerVars, rateVars, wsVars,
                 storeVars, lateVars, allowArgs>>

NextAllow == CheckCaller

SpecAllow == InitAllow /\ [][NextAllow]_vars

Members(list) == {list[i] : i \in 1..Len(list)}

\* C10: isCallerAllowed returns false for every number when the allowlist is
\* empty, and otherwise true exactly when the number is a member of the list.
C10_AllowlistFailClosed ==
  allowResult.done =>
    /\ (allowArgs.allowedCallers = <<>> => allowResult.value = FALSE)
    /\ allowResult.value = (allowArgs.phoneNumber \in Members(allowArgs.allowedCallers))

C10_Witness ==
  /\ allowResult.done
  /\ allowArgs.allowedCallers = <<>>
  /\ allowResult.value = FALSE

\* The other cases of C10: a listed number is admitted, an unlisted one is not.
C10_MemberAdmitted ==
  allowResult.done /\ allowResult.value /\ Len(allowArgs.allowedCallers) >= 2
C10_StrangerRejected ==
  allowResult.done /\ ~allowResult.value /\ Len(allowArgs.allowedCallers) >= 2

(***************************************************************************)
(* Specification SpecCall: the call orchestrator (voice-agent.ts).         *)
(* Webhook events, media sockets and frames of the calls in CallIds, the   *)
(* timers, and the continuations of handlers suspended at an await, in     *)
(* every interleaving.                                                     *)
(***************************************************************************)
MaxCallFrames == 2     \* media frames delivered in one behaviour

CallIds    == {"c1", "c2"}
Callers    == {"+40700000001", "+40700000002"}
CallFrames == {SilentFrame, LoudFrameSmall}
\* The clock advances once by each of these, in either order: the pause that
\* ends a segment and the idle time after which a session is stale.
CallDelays == {silenceDurationMs, staleThresholdMs + 1}

NoInvocations ==
  [answer |-> 0, hangup |-> 0, stt |-> 0, emergency |-> 0, cortex |-> 0,
   claude |-> 0, speak |-> 0]

\* One more invocation of a collaborator on behalf of a call.
Invoke(inv, c, kind) == [inv EXCEPT ![c][kind] = @ + 1]

AtDailyLimit(phoneNumber) ==
  MapSet(EmptyMap, phoneNumber,
         [count |-> maxDailyCallsPerNumber, lastReset |-> Epoch])

\* One more call of this number fits in its window.
OneBelowDailyLimit(phoneNumber) ==
  MapSet(EmptyMap, phoneNumber,
         [count |-> maxDailyCallsPerNumber - 1, lastReset |-> Epoch])

\* The sessions and the ledger after the calls were answered at Epoch.
RECURSIVE Answered(_)
Answered(calls) ==
  IF calls = {}
  THEN [sessions |-> EmptyMap, stats |-> EmptyMap]
  ELSE LET c    == CHOOSE x \in calls : TRUE
           rest == Answered(calls \ {c})
       IN  createSession(rest.sessions, rest.stats, c, "+40700000001", Epoch)

InitCall ==
  /\ now = Epoch
  /\ VadUnused
  /\ ScenUnused
  /\ AllowUnused
  /\ WsUnused
  /\ StoreUnused
  /\ LateUnused
  /\ LedgerUnused
  /\ RateUnused
  /\ allowlist \in {<<>>, <<"+40700000001">>}
  /\ activeSessions = EmptyMap
  /\ dailyCallStats \in {EmptyMap, AtDailyLimit("+40700000001"),
                         OneBelowDailyLimit("+40700000001")}
  /\ vadInstances = EmptyMap
  /\ sessionRateLimits = EmptyMap
  /\ webSocketConnections = {}
  /\ sockets = {}
  /\ answering = EmptyMap
  /\ turns = <<>>
  /\ invoked = [c \in CallIds |-> NoInvocations]
  /\ progress = NoProgress
  /\ lastEvent = NoEvent

\* The number has an entry in the ledger whose window is running and whose
\* count has reached the limit.
OverDailyLimit(stats, phoneNumber, t) ==
  /\ MapHas(stats, phoneNumber)
  /\ t - stats[phoneNumber].lastReset <= dayInMs
  /\ stats[phoneNumber].count >= maxDailyCallsPerNumber

\* What a claim needs to know of a call.initiated event.
InitiatedEvent(c, from, rejected, stats) ==
  [op            |-> "initiated",
   id            |-> c,
   allowed       |-> from \in Members(allowlist),
   overLimit     |-> OverDailyLimit(dailyCallStats, from, now),
   rejected      |-> rejected,
   ledgerChanged |-> stats # dailyCallStats]

\* call.initiated up to its first await: the two admission checks, then
\* hangup (rejected) or answerCall (admitted).
CallInitiatedSkipsDailyLimit(c, from) ==
  /\ c \notin progress.initiated
  /\ IF ~isCallerAllowed(from, allowlist)
     THEN /\ invoked' = Invoke(invoked, c, "hangup")
          /\ progress' = [progress EXCEPT !.initiated = @ \cup {c},
                                          !.rejected = @ \cup {c}]
          /\ lastEvent' = InitiatedEvent(c, from, TRUE, dailyCallStats)
          /\ UNCHANGED <<dailyCallStats, answering>>
     ELSE /\ invoked' = Invoke(invoked, c, "answer")
          /\ answering' = MapSet(answering, c, from)
          /\ progress' = [progress EXCEPT !.initiated = @ \cup {c}]
          /\ lastEvent' = InitiatedEvent(c, from, FALSE, dailyCallStats)
          /\ UNCHANGED dailyCallStats
  /\ UNCHANGED <<now, nonCallVars, allowlist, activeSessions, vadInstances,
                 sessionRateLimits, webSocketConnections, sockets, turns>>

CallInitiated(c, from) ==
  /\ c \notin progress.initiated
  /\ IF ~isCallerAllowed(from, allowlist)
     THEN /\ invoked' = Invoke(invoked, c, "hangup")
          /\ progress' = [progress EXCEPT !.initiated = @ \cup {c},
                                          !.rejected = @ \cup {c}]
          /\ lastEvent' = InitiatedEvent(c, from, TRUE, dailyCallStats)
          /\ UNCHANGED <<dailyCallStats, answering>>
     ELSE LET limit == hasExceededDailyLimit(dailyCallStats, from,
                                             maxDailyCallsPerNumber, now)
          IN  /\ dailyCallStats' = limit.stats
              /\ lastEvent' = InitiatedEvent(c, from, limit.result, limit.stats)
              /\ IF limit.result
                 THEN /\ invoked' = Invoke(invoked, c, "hangup")
                      /\ progress' = [progress EXCEPT !.initiated = @ \cup {c},
                                                      !.rejected = @ \cup {c}]
                      /\ UNCHANGED answering
                 ELSE /\ invoked' = Invoke(invoked, c, "answer")
                      /\ answering' = MapSet(answering, c, from)
                      /\ progress' = [progress EXCEPT !.initiated = @ \cup {c}]
  /\ UNCHANGED <<now, nonCallVars, allowlist, activeSessions, vadInstances,
                 sessionRateLimits, webSocketConnections, sockets, turns>>

\* call.initiated after answerCall: the session and the detector are created,
\* unless answerCall threw.
AnswerCallDone(c, ok) ==
  /\ MapHas(answering, c)
  /\ answering' = MapDelete(answering, c)
  /\ lastEvent' = NoEvent
  /\ IF ok
     THEN LET made == createSession(activeSessions, dailyCallStats, c,
                                    answering[c], now)
          IN  /\ activeSessions' = made.sessions
              /\ dailyCallStats' = made.stats
              /\ vadInstances' = MapSet(vadInstances, c, NewVAD)
     ELSE UNCHANGED <<activeSessions, dailyCallStats, vadInstances>>
  /\ UNCHANGED <<now, nonCallVars, allowlist, sessionRateLimits,
                 webSocketConnections, sockets, turns, invoked, progress>>

\* call.hangup: the handler has no await.
CallHangup(c) ==
  /\ c \in progress.initiated
  /\ c \notin progress.hungUp
  /\ progress' = [progress EXCEPT !.hungUp = @ \cup {c}]
  /\ lastEvent' = NoEvent
  /\ activeSessions' = endSession(activeSessions, c)
  /\ vadInstances' = MapDelete(vadInstances, c)
  /\ webSocketConnections' = webSocketConnections \ {c}
  /\ UNCHANGED <<now, nonCallVars, allowlist, dailyCallStats,
                 sessionRateLimits, sockets, answering, turns, invoked>>

MAX_CONCURRENT_WS == 3

\* /voice/stream upgrade (the call id must have a session) and the open
\* callback.  The callback counts the connection and refuses it when the
\* count has passed MAX_CONCURRENT_WS: it closes the socket and takes the
\* count back, and the close callback of the refused socket is then due.
\* An admitted socket of a call without a detector is closed again at once.
WsOpen(c) ==
  /\ c \notin sockets
  /\ c \notin refused
  /\ MapHas(activeSessions, c)
  /\ lastEvent' = NoEvent
  /\ IF activeWsConnections + 1 > MAX_CONCURRENT_WS
     THEN /\ refused' = refused \cup {c}
          /\ UNCHANGED <<activeWsConnections, sockets, webSocketConnections>>
     ELSE IF MapHas(vadInstances, c)
     THEN /\ activeWsConnections' = activeWsConnections + 1
          /\ sockets' = sockets \cup {c}
          /\ webSocketConnections' = webSocketConnections \cup {c}
          /\ UNCHANGED refused
     ELSE /\ webSocketConnections' = webSocketConnections \ {c}
          /\ UNCHANGED <<activeWsConnections, sockets, refused>>
  /\ UNCHANGED <<now, nonWsVars, allowlist, activeSessions, dailyCallStats,
                 vadInstances, sessionRateLimits, answering, turns, invoked,
                 progress>>

\* The close callback, of a socket that was served or of one that was
\* refused: the count is taken back and the call id deregistered.
WsClose(c) ==
  /\ c \in sockets \cup refused
  /\ activeWsConnections' = activeWsConnections - 1
  /\ sockets' = sockets \ {c}
  /\ refused' = refused \ {c}
  /\ webSocketConnections' = webSocketConnections \ {c}
  /\ lastEvent' = NoEvent
  /\ UNCHANGED <<now, nonWsVars, allowlist, activeSessions, dailyCallStats,
                 vadInstances, sessionRateLimits, answering, turns, invoked,
                 progress>>

\* A frame handler suspended in transcribeAudio.  userStored and replyStored
\* record what the handler has appended to the history of its call so far.
NewTurn(c) ==
  [id |-> c, stage |-> "stt", userStored |-> FALSE, replyStored |-> FALSE]

\* The frame handler with one detector for all calls.
MediaFrameSharedDetector(c, audioChunk) ==
  IF ~MapHas(vadInstances, c)
  THEN [vads |-> vadInstances, limits |-> sessionRateLimits,
        inv |-> invoked, turns |-> turns, speechEnd |-> FALSE]
  ELSE LET out  == VadProcess(DefaultVADConfig, vadInstances[c], audioChunk, now)
           vads == [k \in DOMAIN vadInstances |-> out.vad]
       IN  IF out.res.event = "speech_end" /\ ~out.res.audioBuffer.isNull
           THEN LET rate == checkRateLimit(sessionRateLimits, c, "stt", now)
                IN  IF rate.ok
                    THEN [vads      |-> vads,
                          limits    |-> rate.limits,
                          inv       |-> Invoke(invoked, c, "stt"),
                          turns     |-> Append(turns, NewTurn(c)),
                          speechEnd |-> TRUE]
                    ELSE [vads |-> vads, limits |-> rate.limits,
                          inv |-> invoked, turns |-> turns, speechEnd |-> TRUE]
           ELSE [vads |-> vads, limits |-> sessionRateLimits,
                 inv |-> invoked, turns |-> turns, speechEnd |-> FALSE]

\* handleTelnyxWsMessage up to its first await: the detector of the call id
\* is looked up and fed; on speech_end transcribeAudio checks the rate limit
\* and calls the transcription service.
MediaFrameUnmetered(c, audioChunk) ==
  IF ~MapHas(vadInstances, c)
  THEN [vads |-> vadInstances, limits |-> sessionRateLimits,
        inv |-> invoked, turns |-> turns, speechEnd |-> FALSE]
  ELSE LET out  == VadProcess(DefaultVADConfig, vadInstances[c], audioChunk, now)
           vads == [vadInstances EXCEPT ![c] = out.vad]
       IN  IF out.res.event = "speech_end" /\ ~out.res.audioBuffer.isNull
           THEN [vads      |-> vads,
                 limits    |-> checkRateLimit(sessionRateLimits, c, "stt", now).limits,
                 inv       |-> Invoke(invoked, c, "stt"),
                 turns     |-> Append(turns, NewTurn(c)),
                 speechEnd |-> TRUE]
           ELSE [vads |-> vads, limits |-> sessionRateLimits,
                 inv |-> invoked, turns |-> turns, speechEnd |-> FALSE]

MediaFrame(c, audioChunk) ==
  IF ~MapHas(vadInstances, c)
  THEN [vads |-> vadInstances, limits |-> sessionRateLimits,
        inv |-> invoked, turns |-> turns, speechEnd |-> FALSE]
  ELSE LET out  == VadProcess(DefaultVADConfig, vadInstances[c], audioChunk, now)
           vads == [vadInstances EXCEPT ![c] = out.vad]
       IN  IF out.res.event = "speech_end" /\ ~out.res.audioBuffer.isNull
           THEN LET rate == checkRateLimit(sessionRateLimits, c, "stt", now)
                IN  IF rate.ok
                    THEN [vads      |-> vads,
                          limits    |-> rate.limits,
                          inv       |-> Invoke(invoked, c, "stt"),
                          turns     |-> Append(turns, NewTurn(c)),
                          speechEnd |-> TRUE]
                    ELSE [vads |-> vads, limits |-> rate.limits,
                          inv |-> invoked, turns |-> turns, speechEnd |-> TRUE]
           ELSE [vads |-> vads, limits |-> sessionRateLimits,
                 inv |-> invoked, turns |-> turns, speechEnd |-> FALSE]

\* The transcription window of the call is running and full.
SttBudgetExhausted(limits, c, t) ==
  /\ MapHas(limits, c)
  /\ t - limits[c].windowStart <= rateWindowMs
  /\ limits[c].sttCount >= MAX_STT_PER_SESSION_PER_MINUTE

WsMessage(c, audioChunk) ==
  /\ c \in sockets
  /\ progress.frames < MaxCallFrames
  /\ progress' = [progress EXCEPT !.frames = @ + 1]
  /\ LET after == MediaFrame(c, audioChunk)
     IN  /\ vadInstances' = after.vads
         /\ sessionRateLimits' = after.limits
         /\ invoked' = after.inv
         /\ turns' = after.turns
         /\ lastEvent' =
              [op |-> "frame", id |-> c,
               hadSession |-> MapHas(activeSessions, c),
               ignored    |-> /\ after.vads = vadInstances
                              /\ after.limits = sessionRateLimits
                              /\ after.inv = invoked
                              /\ after.turns = turns,
               speechEnd  |-> after.speechEnd,
               exhausted  |-> SttBudgetExhausted(sessionRateLimits, c, now),
               consumed   |-> after.limits # sessionRateLimits,
               transcribing |-> after.inv # invoked \/ after.turns # turns]
  /\ UNCHANGED <<now, nonCallVars, allowlist, activeSessions, dailyCallStats,
                 webSocketConnections, sockets, answering>>

RemoveAt(seq, i) == SubSeq(seq, 1, i - 1) \o SubSeq(seq, i + 1, Len(seq))

\* What the transcription returned: nothing (also on error), ordinary text,
\* or text with an emergency phrase of critical or high severity.
Transcripts == {"", "text", "emergency"}

\* What a claim needs to know of a collaborator failure in a turn.
FailureEvent(c, kind, fallbackSpoken) ==
  [op |-> "failure", id |-> c, kind |-> kind, fallbackSpoken |-> fallbackSpoken,
   hadSession |-> MapHas(activeSessions, c), hadVad |-> MapHas(vadInstances, c)]

\* The transcription returns.  With a transcript and a session, the emergency
\* check runs; an emergency is answered at once, anything else goes to
\* getClaudeResponse, which stores the caller's text and queries Cortex.
SttDone(i, transcription) ==
  /\ i \in 1..Len(turns)
  /\ turns[i].stage = "stt"
  /\ LET c == turns[i].id
     IN  /\ lastEvent' = NoEvent
         /\ IF transcription = "" \/ ~MapHas(activeSessions, c)
            THEN /\ turns' = RemoveAt(turns, i)
                 /\ UNCHANGED <<activeSessions, invoked>>
            ELSE IF transcription = "emergency"
            THEN /\ turns' = [turns EXCEPT ![i].stage = "speak"]
                 /\ invoked' = Invoke(Invoke(invoked, c, "emergency"), c, "speak")
                 /\ UNCHANGED activeSessions
            ELSE /\ turns' = [turns EXCEPT ![i].stage = "cortex",
                                           ![i].userStored = TRUE]
                 /\ activeSessions' =
                      addMessage(activeSessions, c, "user", transcription, now)
                 /\ invoked' = Invoke(invoked, c, "cortex")
  /\ UNCHANGED <<now, nonCallVars, allowlist, dailyCallStats, vadInstances,
                 sessionRateLimits, webSocketConnections, sockets, answering,
                 progress>>

\* The transcription service throws: transcribeAudio catches the error and
\* returns '', and the handler ends.
SttFailed(i) ==
  /\ i \in 1..Len(turns)
  /\ turns[i].stage = "stt"
  /\ turns' = RemoveAt(turns, i)
  /\ lastEvent' = FailureEvent(turns[i].id, "stt", FALSE)
  /\ UNCHANGED <<now, nonCallVars, allowlist, activeSessions, dailyCallStats,
                 vadInstances, sessionRateLimits, webSocketConnections,
                 sockets, answering, invoked, progress>>

\* getCortexProcedures returns or throws (caught): the claude process is spawned.
CortexDone(i) ==
  /\ i \in 1..Len(turns)
  /\ turns[i].stage = "cortex"
  /\ turns' = [turns EXCEPT ![i].stage = "claude"]
  /\ invoked' = Invoke(invoked, turns[i].id, "claude")
  /\ lastEvent' = NoEvent
  /\ UNCHANGED <<now, nonCallVars, allowlist, activeSessions, dailyCallStats,
                 vadInstances, sessionRateLimits, webSocketConnections,
                 sockets, answering, progress>>

\* The claude process ends: its reply is stored and spoken, or a fallback
\* phrase is spoken when it failed.
ClaudeDone(i, ok) ==
  /\ i \in 1..Len(turns)
  /\ turns[i].stage = "claude"
  /\ turns' = [turns EXCEPT ![i].stage = "speak",
                            ![i].replyStored =
                               ok /\ MapHas(activeSessions, turns[i].id)]
  /\ invoked' = Invoke(invoked, turns[i].id, "speak")
  /\ lastEvent' = IF ok THEN NoEvent
                  ELSE FailureEvent(turns[i].id, "claude", TRUE)
  /\ activeSessions' =
       IF ok THEN addMessage(activeSessions, turns[i].id, "assistant", "reply", now)
       ELSE activeSessions
  /\ UNCHANGED <<now, nonCallVars, allowlist, dailyCallStats, vadInstances,
                 sessionRateLimits, webSocketConnections, sockets, answering,
                 progress>>

\* telnyxAPI.speak returns: the handler ends.
SpeakDone(i) ==
  /\ i \in 1..Len(turns)
  /\ turns[i].stage = "speak"
  /\ turns' = RemoveAt(turns, i)
  /\ lastEvent' = NoEvent
  /\ UNCHANGED <<now, nonCallVars, allowlist, activeSessions, dailyCallStats,
                 vadInstances, sessionRateLimits, webSocketConnections,
                 sockets, answering, invoked, progress>>

\* telnyxAPI.speak throws: the handler's catch logs the error and the
\* handler ends.
SpeakFailed(i) ==
  /\ i \in 1..Len(turns)
  /\ turns[i].stage = "speak"
  /\ turns' = RemoveAt(turns, i)
  /\ lastEvent' = FailureEvent(turns[i].id, "speak", FALSE)
  /\ UNCHANGED <<now, nonCallVars, allowlist, activeSessions, dailyCallStats,
                 vadInstances, sessionRateLimits, webSocketConnections,
                 sockets, answering, invoked, progress>>

\* The 5-minute cleanup timer.
CleanupTimer ==
  /\ \E k \in DOMAIN activeSessions : IsStale(activeSessions[k], now)
  /\ activeSessions' = cleanupStaleSessions(activeSessions, now)
  /\ lastEvent' = NoEvent
  /\ UNCHANGED <<now, nonCallVars, allowlist, dailyCallStats, vadInstances,
                 sessionRateLimits, webSocketConnections, sockets, answering,
                 turns, invoked, progress>>

\* The rate-limit cleanup timer, when it finds something to do.
RateCleanupTimer ==
  /\ cleanupRateLimits(sessionRateLimits, now) # sessionRateLimits
  /\ sessionRateLimits' = cleanupRateLimits(sessionRateLimits, now)
  /\ lastEvent' = NoEvent
  /\ UNCHANGED <<now, nonCallVars, allowlist, activeSessions, dailyCallStats,
                 vadInstances, webSocketConnections, sockets, answering,
                 turns, invoked, progress>>

Tick(dt) ==
  /\ dt \notin progress.elapsed
  /\ progress' = [progress EXCEPT !.elapsed = @ \cup {dt}]
  /\ now' = now + dt
  /\ lastEvent' = NoEvent
  /\ UNCHANGED <<nonCallVars, allowlist, activeSessions, dailyCallStats,
                 vadInstances, sessionRateLimits, webSocketConnections,
                 sockets, answering, turns, invoked>>

NextCall ==
  \/ \E c \in CallIds, from \in Callers : CallInitiated(c, from)
  \/ \E c \in CallIds, ok \in BOOLEAN : AnswerCallDone(c, ok)
  \/ \E c \in CallIds : CallHangup(c)
  \/ \E c \in CallIds : WsOpen(c)
  \/ \E c \in CallIds : WsClose(c)
  \/ \E c \in CallIds, audioChunk \in CallFrames : WsMessage(c, audioChunk)
  \/ \E i \in 1..Len(turns), transcription \in Transcripts : SttDone(i, transcription)
  \/ \E i \in 1..Len(turns) : SttFailed(i)
  \/ \E i \in 1..Len(turns) : CortexDone(i)
  \/ \E i \in 1..Len(turns), ok \in BOOLEAN : ClaudeDone(i, ok)
  \/ \E i \in 1..Len(turns) : SpeakDone(i)
  \/ \E i \in 1..Len(turns) : SpeakFailed(i)
  \/ CleanupTimer
  \/ RateCleanupTimer
  \/ \E dt \in CallDelays : Tick(dt)

SpecCall == InitCall /\ [][NextCall]_vars

FrameArrived == lastEvent.op = "frame"

\* C8: a media frame for a call id that has no live session is ignored: it
\* changes no detector, consumes no rate-limit budget and invokes no
\* collaborator.
C8_FrameWithoutSessionIgnored ==
  (FrameArrived /\ ~lastEvent.hadSession) => lastEvent.ignored

\* The part of C8 that the code keeps: a frame for a call id that has no
\* detector is ignored.
C8_FrameWithoutDetectorIgnored ==
  (FrameArrived /\ ~MapHas(vadInstances, lastEvent.id)) => lastEvent.ignored

\* How a call id comes to have a detector and no session: the sweep removes
\* sessions only, hangup removes both.
C8_DetectorOutlivesSweptSession ==
  \A c \in DOMAIN vadInstances :
    MapHas(activeSessions, c) \/ staleThresholdMs + 1 \in progress.elapsed

\* C9: once the call.hangup handler for a call id has run, no session entry
\* and no VAD instance for that id exists in any later state.
C9_NoStateAfterHangup ==
  \A c \in progress.hungUp :
    ~MapHas(activeSessions, c) /\ ~MapHas(vadInstances, c)

\* The part of C9 that the code keeps: hangup removes the entries that exist
\* when it runs, and only a call.initiated handler that was still awaiting
\* answerCall at that time creates them afterwards.
C9_HangupDeregisters ==
  [][\A c \in CallIds :
       CallHangup(c) =>
         /\ ~MapHas(activeSessions', c)
         /\ ~MapHas(vadInstances', c)
         /\ c \notin webSocketConnections']_vars

C9_OnlyPendingAnswerResurrects ==
  [][\A c \in progress.hungUp :
       (~MapHas(activeSessions, c) /\ MapHas(activeSessions', c))
         => MapHas(answering, c)]_vars

CallWasInitiated == lastEvent.op = "initiated"

\* C11: a call.initiated event from a caller who is not on the allowlist or
\* who has reached the daily limit is hung up: the ledger is left as it was,
\* answerCall is never invoked for the call id, and no session and no VAD
\* instance exists for it in any later state.
C11_RejectedCallNotProcessed ==
  /\ (CallWasInitiated /\ (~lastEvent.allowed \/ lastEvent.overLimit)) =>
       /\ lastEvent.rejected
       /\ lastEvent.id \in progress.rejected
       /\ ~lastEvent.ledgerChanged
  /\ \A c \in progress.rejected :
       /\ ~MapHas(activeSessions, c)
       /\ ~MapHas(vadInstances, c)
       /\ ~MapHas(answering, c)
       /\ invoked[c].answer = 0
       /\ invoked[c].hangup = 1

C11_Witness ==
  /\ CallWasInitiated
  /\ lastEvent.allowed
  /\ lastEvent.overLimit
  /\ lastEvent.id \in progress.rejected

\* The other rejection of C11: the caller is not on the allowlist, and some
\* other call is in progress.
C11_StrangerRejected ==
  /\ CallWasInitiated
  /\ ~lastEvent.allowed
  /\ lastEvent.id \in progress.rejected
  /\ activeSessions # EmptyMap

\* C13: for every phone number the count of its ledger entry, which is the
\* number of sessions created in the running 24-hour window, is never
\* negative and never exceeds maxDailyCallsPerNumber.
C13_DailyCapHolds ==
  \A p \in DOMAIN dailyCallStats :
    /\ dailyCallStats[p].count >= 0
    /\ dailyCallStats[p].count <= maxDailyCallsPerNumber

\* The part of C13 that the code keeps: counts are never negative, and a call
\* is answered only when the count read by its own check was below the limit.
C13_CountNeverNegative ==
  \A p \in DOMAIN dailyCallStats : dailyCallStats[p].count >= 0

C13_AdmittedOnlyBelowLimit ==
  (CallWasInitiated /\ ~lastEvent.rejected) => ~lastEvent.overLimit

(***************************************************************************)
(* Specification SpecTurn: the turns of one call in progress.  The call c1 *)
(* was answered CallAgeMs ago, its media socket is open and its detector   *)
(* is idle; it has had no speech segment yet, or as many in the running    *)
(* minute as leave one transcription or none in the budget.                *)
(***************************************************************************)
CallAgeMs    == 50000   \* time since the call was answered
BusyWindowMs == 45000   \* age of the rate-limit window of a busy call

TurnCall   == "c1"
TurnCaller == "+40700000001"

\* The detector after a segment that ended a pause ago.
IdleAfterSegment(t) ==
  [NewVAD EXCEPT !.speechStartTime = t - 2 * silenceDurationMs,
                 !.lastSpeechTime  = t - silenceDurationMs]

\* The call after sttCount transcriptions in its running window.
BusyCall(sttCount, t) ==
  [limits |-> MapSet(EmptyMap, TurnCall,
                     [sttCount |-> sttCount, ttsCount |-> 0,
                      windowStart |-> t - BusyWindowMs]),
   vads   |-> MapSet(EmptyMap, TurnCall, IdleAfterSegment(t))]

QuietCall ==
  [limits |-> EmptyMap, vads |-> MapSet(EmptyMap, TurnCall, NewVAD)]

InitTurn ==
  /\ now = Epoch + CallAgeMs
  /\ VadUnused
  /\ ScenUnused
  /\ AllowUnused
  /\ StoreUnused
  /\ LateUnused
  /\ LedgerUnused
  /\ RateUnused
  /\ allowlist = <<TurnCaller>>
  /\ activeSessions =
       createSession(EmptyMap, EmptyMap, TurnCall, TurnCaller, Epoch).sessions
  /\ dailyCallStats =
       createSession(EmptyMap, EmptyMap, TurnCall, TurnCaller, Epoch).stats
  /\ \E call \in {QuietCall,
                  BusyCall(MAX_STT_PER_SESSION_PER_MINUTE - 1, Epoch + CallAgeMs),
                  BusyCall(MAX_STT_PER_SESSION_PER_MINUTE, Epoch + CallAgeMs)} :
       /\ sessionRateLimits = call.limits
       /\ vadInstances = call.vads
  /\ webSocketConnections = {TurnCall}
  /\ sockets = {TurnCall}
  /\ activeWsConnections = 1
  /\ refused = {}
  /\ answering = EmptyMap
  /\ turns = <<>>
  /\ invoked = [c \in CallIds |->
                  IF c = TurnCall THEN [NoInvocations EXCEPT !.answer = 1]
                  ELSE NoInvocations]
  /\ progress = [NoProgress EXCEPT !.initiated = {TurnCall}]
  /\ lastEvent = NoEvent

NextTurn ==
  \/ \E audioChunk \in CallFrames : WsMessage(TurnCall, audioChunk)
  \/ \E i \in 1..Len(turns), transcription \in Transcripts : SttDone(i, transcription)
  \/ \E i \in 1..Len(turns) : SttFailed(i)
  \/ \E i \in 1..Len(turns) : CortexDone(i)
  \/ \E i \in 1..Len(turns), ok \in BOOLEAN : ClaudeDone(i, ok)
  \/ \E i \in 1..Len(turns) : SpeakDone(i)
  \/ \E i \in 1..Len(turns) : SpeakFailed(i)
  \/ CallHangup(TurnCall)
  \/ WsClose(TurnCall)
  \/ CleanupTimer
  \/ RateCleanupTimer
  \/ \E dt \in CallDelays : Tick(dt)

SpecTurn == InitTurn /\ [][NextTurn]_vars

\* The clock and the timers run, and the transcription service, Cortex and
\* Telnyx answer every request or fail it.  Nothing is assumed of the claude
\* process: getClaudeResponse waits for its output without a timer.
SpecTurnFair ==
  /\ SpecTurn
  /\ WF_vars(\E dt \in CallDelays : Tick(dt))
  /\ WF_vars(CleanupTimer)
  /\ WF_vars(RateCleanupTimer)
  /\ WF_vars(\E i \in 1..Len(turns) :
               SttFailed(i) \/ \E transcription \in Transcripts :
                                 SttDone(i, transcription))
  /\ WF_vars(\E i \in 1..Len(turns) : CortexDone(i))
  /\ WF_vars(\E i \in 1..Len(turns) : SpeakDone(i) \/ SpeakFailed(i))

SpeechEndArrived == FrameArrived /\ lastEvent.speechEnd

\* C17: on speech_end the rate limiter is consulted before the transcription:
\* with the transcription budget of the call exhausted the frame consumes
\* nothing, invokes no collaborator and starts no turn (so nothing is stored,
\* generated or spoken for it); otherwise the budget is consumed and the
\* transcription is invoked.
C17_ExhaustedBudgetDropsTurn ==
  SpeechEndArrived =>
    /\ lastEvent.exhausted => (~lastEvent.transcribing /\ ~lastEvent.consumed)
    /\ ~lastEvent.exhausted => (lastEvent.transcribing /\ lastEvent.consumed)
    /\ ~lastEvent.transcribing => turns = <<>>

C17_Witness ==
  /\ SpeechEndArrived
  /\ lastEvent.exhausted
  /\ invoked[TurnCall].stt = 0

\* The other case of C17: the last transcription of the budget.
C17_LastOfBudget ==
  /\ SpeechEndArrived
  /\ ~lastEvent.exhausted
  /\ sessionRateLimits[TurnCall].sttCount = MAX_STT_PER_SESSION_PER_MINUTE

\* Why C15 fails for telephony calls: the reply of a turn is handed to
\* telnyxAPI.speak without a checkRateLimit of kind 'tts', so the synthesis
\* count of a call never moves.
C15_PlaybackNeverMetered ==
  \A c \in DOMAIN sessionRateLimits : sessionRateLimits[c].ttsCount = 0

C15_PlaybackReached ==
  invoked[TurnCall].speak > 0 /\ MapHas(sessionRateLimits, TurnCall)

\* C18: whenever a reply is being delivered for playback, the caller's text
\* and that reply have been appended to the history of the call, whichever
\* path produced the reply.
C18_SpokenReplyIsStored ==
  \A i \in 1..Len(turns) :
    turns[i].stage = "speak" => (turns[i].userStored /\ turns[i].replyStored)

\* The part of C18 that the code keeps: on the normal path the caller's text
\* is stored before the reply is asked for, and a reply of the claude process
\* is stored after it, before it is spoken.
C18_UserTextStoredBeforeReply ==
  \A i \in 1..Len(turns) :
    turns[i].stage \in {"cortex", "claude"} =>
      (turns[i].userStored /\ ~turns[i].replyStored)

C18_StoredReplyFollowsUserText ==
  \A i \in 1..Len(turns) :
    (turns[i].replyStored /\ MapHas(activeSessions, turns[i].id)) =>
      LET h == activeSessions[turns[i].id].conversationHistory
      IN  /\ Len(h) >= 2
          /\ h[Len(h)].role = "assistant"
          /\ h[Len(h) - 1].role = "user"

TurnFailed == lastEvent.op = "failure"

\* C19: a failure of a collaborator during a turn has a fallback phrase
\* spoken to the caller and leaves the session and the detector of the call
\* in place.
C19_FailureSpeaksFallback ==
  TurnFailed =>
    /\ lastEvent.fallbackSpoken
    /\ lastEvent.hadSession => MapHas(activeSessions, lastEvent.id)
    /\ lastEvent.hadVad => MapHas(vadInstances, lastEvent.id)

\* The part of C19 that the code keeps: no failure removes the session or
\* the detector, and a failure of the claude process has a fallback spoken.
C19_FailureKeepsCallState ==
  TurnFailed =>
    /\ lastEvent.hadSession => MapHas(activeSessions, lastEvent.id)
    /\ lastEvent.hadVad => MapHas(vadInstances, lastEvent.id)

C19_ResponseFailureSpeaksFallback ==
  (TurnFailed /\ lastEvent.kind = "claude") => lastEvent.fallbackSpoken

\* C20: every turn completes: a frame handler that waits for a collaborator
\* does not wait forever.
C20_TurnEventuallyCompletes == (turns # <<>>) ~> (turns = <<>>)

\* The part of C20 that holds: a turn never waits forever for the
\* transcription, for Cortex or for the playback when these answer.
C20_OnlyClaudeStalls ==
  \A stage \in {"stt", "cortex", "speak"} :
    (\E i \in 1..Len(turns) : turns[i].stage = stage)
      ~> ~(\E i \in 1..Len(turns) : turns[i].stage = stage)

(***************************************************************************)
(* Specification SpecLedger: the daily-call ledger driven directly, from   *)
(* drawn ledgers and drawn ages of their window.                           *)
(***************************************************************************)
MaxLedgerOps == 3      \* operations applied to the ledger in one behaviour

LedgerPhones == {"+40700000001", "+40700000002"}
LedgerCounts ==
  {0, 1, maxDailyCallsPerNumber - 1, maxDailyCallsPerNumber,
   maxDailyCallsPerNumber + 1}
\* Age of the window when the model starts: new, a day less 1 ms, a day, a
\* day and 1 ms, 25 hours.
LedgerAges == {0, dayInMs - 1, dayInMs, dayInMs + 1, 25 * 60 * 60 * 1000}
LedgerDelays == {1, dayInMs}

InitLedger ==
  /\ \E age \in LedgerAges : now = Epoch + age
  /\ VadUnused
  /\ ScenUnused
  /\ AllowUnused
  /\ WsUnused
  /\ StoreUnused
  /\ LateUnused
  /\ RateUnused
  /\ allowlist = <<>>
  /\ activeSessions = EmptyMap
  /\ \/ dailyCallStats = EmptyMap
     \/ \E n \in LedgerCounts :
          dailyCallStats =
            MapSet(EmptyMap, "+40700000001", [count |-> n, lastReset |-> Epoch])
  /\ vadInstances = EmptyMap
  /\ sessionRateLimits = EmptyMap
  /\ webSocketConnections = {}
  /\ sockets = {}
  /\ answering = EmptyMap
  /\ turns = <<>>
  /\ invoked = EmptyMap
  /\ progress = NoProgress
  /\ lastEvent = NoEvent
  /\ limitResult = NoLimitResult
  /\ ledgerOps = 0

ledgerRest ==
  <<vadVars, scenVars, allowVars, rateVars, wsVars, storeVars, lateVars, allowlist,
    activeSessions, vadInstances, sessionRateLimits, webSocketConnections, sockets, answering,
    turns, invoked, progress, lastEvent>>

CheckLimit(phoneNumber) ==
  /\ ledgerOps < MaxLedgerOps
  /\ ledgerOps' = ledgerOps + 1
  /\ LET limit == hasExceededDailyLimit(dailyCallStats, phoneNumber,
                                        maxDailyCallsPerNumber, now)
     IN  /\ dailyCallStats' = limit.stats
         /\ limitResult' = [done |-> TRUE, phoneNumber |-> phoneNumber,
                            value |-> limit.result, before |-> dailyCallStats]
  /\ UNCHANGED <<now, ledgerRest>>

CountCall(phoneNumber) ==
  /\ ledgerOps < MaxLedgerOps
  /\ ledgerOps' = ledgerOps + 1
  /\ dailyCallStats' = incrementDailyCallCount(dailyCallStats, phoneNumber, now)
  /\ limitResult' = NoLimitResult
  /\ UNCHANGED <<now, ledgerRest>>

LedgerTick(dt) ==
  /\ ledgerOps < MaxLedgerOps
  /\ ledgerOps' = ledgerOps + 1
  /\ now' = now + dt
  /\ limitResult' = NoLimitResult
  /\ UNCHANGED <<dailyCallStats, ledgerRest>>

NextLedger ==
  \/ \E phoneNumber \in LedgerPhones : CheckLimit(phoneNumber)
  \/ \E phoneNumber \in LedgerPhones : CountCall(phoneNumber)
  \/ \E dt \in LedgerDelays : LedgerTick(dt)

SpecLedger == InitLedger /\ [][NextLedger]_vars

\* What the check is expected to leave and to return when the window of an
\* entry is reset once resetDue holds of it.
LimitCheckIs(resetDue(_)) ==
  LET p      == limitResult.phoneNumber
      before == limitResult.before
  IN  IF ~MapHas(before, p)
      THEN /\ limitResult.value = FALSE
           /\ dailyCallStats = before
      ELSE /\ dailyCallStats =
                IF resetDue(before[p])
                THEN MapSet(before, p, [count |-> 0, lastReset |-> now])
                ELSE before
           /\ limitResult.value =
                (dailyCallStats[p].count >= maxDailyCallsPerNumber)

MoreThanADayOld(entry) == now - entry.lastReset > dayInMs
ADayOld(entry)         == now - entry.lastReset >= dayInMs

C12_RunningWindowRejects ==
  /\ limitResult.done
  /\ limitResult.value
  /\ dailyCallStats = limitResult.before

C12_NoEntryNotExceeded ==
  /\ limitResult.done
  /\ ~MapHas(limitResult.before, limitResult.phoneNumber)
  /\ limitResult.before # EmptyMap

(***************************************************************************)
(* Specification SpecRate: the rate limiter driven directly.  checkRateLimit*)
(* is applied to drawn windows while the clock runs and the cleanup timer   *)
(* fires every rateSweepMs.                                                 *)
(***************************************************************************)
MaxRateOps == 3        \* checkRateLimit calls in one behaviour
MaxSweeps  == 7        \* sweep periods in one behaviour
MaxBusySweeps == 2     \* of these, the first in which checkRateLimit is called

RateKinds == {"stt", "tts"}
\* Counts of a drawn window: none, one below the cap, the cap.
RateSttCounts ==
  {0, MAX_STT_PER_SESSION_PER_MINUTE - 1, MAX_STT_PER_SESSION_PER_MINUTE}
RateTtsCounts ==
  {0, MAX_TTS_PER_SESSION_PER_MINUTE - 1, MAX_TTS_PER_SESSION_PER_MINUTE}
\* The clock is looked at when the timer fires and 1 ms later.
\* Age of a drawn window: new, or opened by a transcription a minute before
\* the syntheses.
RateAges    == {0, rateWindowMs}
RateOffsets == {0, 1}
RateDelays  == {1, rateSweepMs - 1, rateSweepMs}

InitRate ==
  /\ VadUnused
  /\ ScenUnused
  /\ AllowUnused
  /\ WsUnused
  /\ StoreUnused
  /\ LateUnused
  /\ LedgerUnused
  /\ allowlist = <<>>
  /\ activeSessions = EmptyMap
  /\ dailyCallStats = EmptyMap
  /\ vadInstances = EmptyMap
  /\ \/ sessionRateLimits = EmptyMap /\ touched = EmptyMap /\ now = Epoch
     \/ \E stt \in RateSttCounts, tts \in RateTtsCounts, age \in RateAges :
          /\ stt + tts > 0
          /\ age > 0 => stt > 0
          /\ now = Epoch + age
          /\ sessionRateLimits =
               MapSet(EmptyMap, "c1",
                      [sttCount |-> stt, ttsCount |-> tts,
                       windowStart |-> Epoch])
          /\ touched =
               MapSet(EmptyMap, "c1",
                      [at  |-> now,
                       stt |-> [count |-> stt, windowStart |-> Epoch],
                       tts |-> [count |-> tts, windowStart |-> now]])
  /\ webSocketConnections = {}
  /\ sockets = {}
  /\ answering = EmptyMap
  /\ turns = <<>>
  /\ invoked = EmptyMap
  /\ progress = NoProgress
  /\ lastEvent = NoEvent
  /\ nextSweep = now + rateSweepMs
  /\ lastRate = NoRateOp
  /\ rateOps = 0

rateRest ==
  <<vadVars, scenVars, allowVars, ledgerVars, wsVars, storeVars, lateVars, allowlist,
    activeSessions, dailyCallStats, vadInstances, webSocketConnections, sockets, answering,
    turns, invoked, progress, lastEvent>>

\* The window a kind has on its own: it opens with the first consumption of
\* the kind and holds the consumptions of the kind of the next 60 seconds.
NoOwnWindow == [count |-> 0, windowStart |-> 0]

OwnWindowAfter(own, t) ==
  IF own.count = 0 \/ t - own.windowStart > rateWindowMs
  THEN [count |-> 1, windowStart |-> t]
  ELSE [own EXCEPT !.count = @ + 1]

\* touched after a checkRateLimit of the call that returned ok.
Touch(sessionId, type, ok) ==
  LET was  == IF MapHas(touched, sessionId) THEN touched[sessionId]
              ELSE [at |-> now, stt |-> NoOwnWindow, tts |-> NoOwnWindow]
      seen == [was EXCEPT !.at = now]
  IN  MapSet(touched, sessionId,
             IF ok THEN [seen EXCEPT ![type] = OwnWindowAfter(@, now)]
             ELSE seen)

\* Firings of the cleanup timer so far.
SweepsDone == (nextSweep - Epoch) \div rateSweepMs - 1

Consume(sessionId, type) ==
  /\ rateOps < MaxRateOps
  /\ SweepsDone < MaxBusySweeps
  /\ rateOps' = rateOps + 1
  /\ LET rate == checkRateLimit(sessionRateLimits, sessionId, type, now)
     IN  /\ sessionRateLimits' = rate.limits
         /\ lastRate' = [op |-> "consume", id |-> sessionId, type |-> type,
                         ok |-> rate.ok, before |-> sessionRateLimits]
         /\ touched' = Touch(sessionId, type, rate.ok)
  /\ UNCHANGED <<now, nextSweep, rateRest>>

\* The cleanup timer fires.
RateSweep ==
  /\ now = nextSweep
  /\ nextSweep' = nextSweep + rateSweepMs
  /\ sessionRateLimits' = cleanupRateLimits(sessionRateLimits, now)
  /\ touched' = [x \in DOMAIN sessionRateLimits' |-> touched[x]]
  /\ lastRate' = [op |-> "sweep", before |-> sessionRateLimits]
  /\ UNCHANGED <<now, rateOps, rateRest>>

\* Time passes, up to the next firing of the timer; between two firings the
\* clock is looked at only while a checkRateLimit call is left to make.
RateTick(dt) ==
  /\ now < nextSweep
  /\ now + dt <= nextSweep
  /\ SweepsDone < MaxSweeps
  /\ (rateSweepMs - (nextSweep - (now + dt))) % rateSweepMs \in RateOffsets
  /\ dt # rateSweepMs => (rateOps < MaxRateOps /\ SweepsDone < MaxBusySweeps)
  /\ now' = now + dt
  /\ lastRate' = NoRateOp
  /\ UNCHANGED <<sessionRateLimits, nextSweep, touched, rateOps, rateRest>>

NextRate ==
  \/ \E sessionId \in CallIds, type \in RateKinds : Consume(sessionId, type)
  \/ RateSweep
  \/ \E dt \in RateDelays : RateTick(dt)

SpecRate == InitRate /\ [][NextRate]_vars

Consumed == lastRate.op = "consume"

MaxOfKind(type) ==
  IF type = "stt" THEN MAX_STT_PER_SESSION_PER_MINUTE
  ELSE MAX_TTS_PER_SESSION_PER_MINUTE
CountOfKind(stats, type) ==
  IF type = "stt" THEN stats.sttCount ELSE stats.ttsCount
OtherKind(type) == IF type = "stt" THEN "tts" ELSE "stt"

\* The call has a window that is not over at the time of the last operation.
WindowRunning(limits, sessionId) ==
  /\ MapHas(limits, sessionId)
  /\ now - limits[sessionId].windowStart <= rateWindowMs

\* Consumptions of the kind in the running window before the last operation.
UsedBefore ==
  IF WindowRunning(lastRate.before, lastRate.id)
  THEN CountOfKind(lastRate.before[lastRate.id], lastRate.type)
  ELSE 0

\* C14: in a window of 60 seconds a consumption succeeds exactly while fewer
\* than max of its kind have succeeded (30 transcriptions, 50 syntheses): a
\* success adds one to the counter and keeps the window start, an attempt at
\* the cap returns false and leaves the counter as it was, and an attempt
\* after the window is over starts a new window and succeeds.
C14_ExactlyMaxPerWindow ==
  /\ \A c \in DOMAIN sessionRateLimits, type \in RateKinds :
       CountOfKind(sessionRateLimits[c], type) <= MaxOfKind(type)
  /\ Consumed =>
       LET after == sessionRateLimits[lastRate.id]
       IN  /\ lastRate.ok = (UsedBefore < MaxOfKind(lastRate.type))
           /\ CountOfKind(after, lastRate.type) =
                IF lastRate.ok THEN UsedBefore + 1 ELSE UsedBefore
           /\ after.windowStart =
                IF WindowRunning(lastRate.before, lastRate.id)
                THEN lastRate.before[lastRate.id].windowStart
                ELSE now

C14_Witness ==
  /\ Consumed
  /\ ~lastRate.ok
  /\ lastRate.type = "stt"
  /\ UsedBefore = MAX_STT_PER_SESSION_PER_MINUTE
  /\ sessionRateLimits[lastRate.id].sttCount = MAX_STT_PER_SESSION_PER_MINUTE

\* The other cases of C14: the last success of a window, the cap of the
\* syntheses, and a success after a full window is over.
C14_LastSuccess ==
  /\ Consumed
  /\ lastRate.ok
  /\ CountOfKind(sessionRateLimits[lastRate.id], lastRate.type)
       = MaxOfKind(lastRate.type)

C14_SynthesisCap ==
  Consumed /\ ~lastRate.ok /\ lastRate.type = "tts"

C14_SucceedsAfterExpiry ==
  /\ Consumed
  /\ lastRate.ok
  /\ MapHas(lastRate.before, lastRate.id)
  /\ ~WindowRunning(lastRate.before, lastRate.id)
  /\ CountOfKind(lastRate.before[lastRate.id], lastRate.type)
       = MaxOfKind(lastRate.type)

\* C15: the transcriptions and the syntheses of a call are limited in
\* windows of their own: in the 60 seconds that follow the first consumption
\* of a kind, no more than the cap of that kind succeed (30 transcriptions,
\* 50 syntheses), whatever is consumed of the other kind.
C15_EachKindCappedOnItsOwn ==
  \A c \in DOMAIN touched, type \in RateKinds :
    touched[c][type].count <= MaxOfKind(type)

\* The statement of C15 about the counters: a check-and-consume of one kind
\* does not change the count of the other kind.
C15_OtherCountUntouched ==
  (Consumed /\ MapHas(lastRate.before, lastRate.id)) =>
    CountOfKind(sessionRateLimits[lastRate.id], OtherKind(lastRate.type))
      = CountOfKind(lastRate.before[lastRate.id], OtherKind(lastRate.type))

\* The part of C15 that the code keeps: while the window of the call is
\* running, a consumption leaves the count of the other kind alone, and each
\* count stays within its own cap.
C15_IndependentWithinWindow ==
  (Consumed /\ WindowRunning(lastRate.before, lastRate.id)) =>
    CountOfKind(sessionRateLimits[lastRate.id], OtherKind(lastRate.type))
      = CountOfKind(lastRate.before[lastRate.id], OtherKind(lastRate.type))

\* C16: the rate-limit map holds no entry that has been untouched for longer
\* than 5 minutes plus one sweep period.
C16_NoEntryUntouchedPastPurge ==
  \A c \in DOMAIN sessionRateLimits :
    now - touched[c].at <= ratePurgeMs + rateSweepMs

\* The part of C16 that the code keeps: a sweep deletes the windows older
\* than 5 minutes that it finds and no other.  It finds none: a sweep starts
\* every window that is over again, so that no window is ever older than two
\* sweep periods.
C16_SweepDeletesOldWindowsOnly ==
  lastRate.op = "sweep" =>
    DOMAIN sessionRateLimits =
      {c \in DOMAIN lastRate.before :
         now - lastRate.before[c].windowStart <= ratePurgeMs}

C16_WindowNeverOldEnough ==
  \A c \in DOMAIN sessionRateLimits :
    now - sessionRateLimits[c].windowStart <= 2 * rateSweepMs

(***************************************************************************)
(* Specification SpecStore: the session store (VoiceSessionManager) driven *)
(* directly.  createSession, getSession, getConversationHistory,           *)
(* addMessage, endSession and cleanupStaleSessions are applied in any      *)
(* order to the call ids in StoreCalls, on a store that holds no session,  *)
(* one session with a short, nearly full or full history, or two sessions. *)
(***************************************************************************)
MaxStoreOps == 3      \* operations applied in one behaviour

StoreCalls   == {"c1", "c2"}
StoreRoles   == {"user", "assistant"}
\* Lengths of the history of the first session at the start.
StoreHistories == {0, MaxHistory - 1, MaxHistory}
\* Time since the first session was last active, at the start.
StoreAges    == {0, staleThresholdMs}
StoreDelays  == {1, staleThresholdMs}

\* The k-th message appended to a session.
StoreMessage(k, role, t) == [role |-> role, content |-> k, timestamp |-> t]

\* n messages appended at time t, roles alternating.
PastMessages(n, t) ==
  [k \in 1..n |-> StoreMessage(k, IF k % 2 = 1 THEN "user" ELSE "assistant", t)]

\* The store after createSession(c1) at Epoch and n addMessage calls, and
\* after createSession(c2) at time t when second holds.
StoreAfter(n, second, t) ==
  LET first  == createSession(EmptyMap, EmptyMap, "c1", "+40700000001", Epoch)
      filled == [first.sessions EXCEPT
                   !["c1"].conversationHistory = PastMessages(n, Epoch)]
  IN  IF second
      THEN createSession(filled, first.stats, "c2", "+40700000001", t)
      ELSE [sessions |-> filled, stats |-> first.stats]

InitStore ==
  /\ \E age \in StoreAges : now = Epoch + age
  /\ VadUnused
  /\ ScenUnused
  /\ AllowUnused
  /\ LedgerUnused
  /\ RateUnused
  /\ WsUnused
  /\ LateUnused
  /\ allowlist = <<>>
  /\ \/ /\ activeSessions = EmptyMap
        /\ dailyCallStats = EmptyMap
        /\ appended = EmptyMap
     \/ \E n \in StoreHistories :
          /\ activeSessions = StoreAfter(n, FALSE, now).sessions
          /\ dailyCallStats = StoreAfter(n, FALSE, now).stats
          /\ appended = MapSet(EmptyMap, "c1", PastMessages(n, Epoch))
     \/ /\ activeSessions = StoreAfter(0, TRUE, now).sessions
        /\ dailyCallStats = StoreAfter(0, TRUE, now).stats
        /\ appended = [c \in StoreCalls |-> <<>>]
  /\ vadInstances = EmptyMap
  /\ sessionRateLimits = EmptyMap
  /\ webSocketConnections = {}
  /\ sockets = {}
  /\ answering = EmptyMap
  /\ turns = <<>>
  /\ invoked = EmptyMap
  /\ progress = NoProgress
  /\ lastEvent = NoEvent
  /\ lastStore = NoStoreOp
  /\ storeOps = 0

storeRest ==
  <<vadVars, scenVars, allowVars, ledgerVars, rateVars, wsVars, lateVars, allowlist,
    vadInstances, sessionRateLimits, webSocketConnections, sockets, answering,
    turns, invoked, progress, lastEvent>>

\* What an operation on the store found and what it returned.
StoreOp(op, c, returned) ==
  [op       |-> op,
   id       |-> c,
   existed  |-> MapHas(activeSessions, c),
   before   |-> activeSessions,
   ledger   |-> dailyCallStats,
   returned |-> returned]

CreateSession(c, phoneNumber) ==
  /\ storeOps < MaxStoreOps
  /\ storeOps' = storeOps + 1
  /\ LET made == createSession(activeSessions, dailyCallStats, c, phoneNumber, now)
     IN  /\ activeSessions' = made.sessions
         /\ dailyCallStats' = made.stats
         /\ lastStore' = StoreOp("create", c, made.sessions[c])
  /\ appended' = MapSet(appended, c, <<>>)
  /\ UNCHANGED <<now, storeRest>>

\* getSession and getConversationHistory: neither changes the store.
GetSession(c) ==
  /\ storeOps < MaxStoreOps
  /\ storeOps' = storeOps + 1
  /\ lastStore' =
       StoreOp("get", c,
               [session |-> getSession(activeSessions, c),
                history |-> getConversationHistory(activeSessions, c)])
  /\ UNCHANGED <<now, activeSessions, dailyCallStats, appended, storeRest>>

\* addMessage with a content that tells the messages of a session apart.
AddMessage(c, role) ==
  /\ storeOps < MaxStoreOps
  /\ storeOps' = storeOps + 1
  /\ LET k == IF MapHas(appended, c) THEN Len(appended[c]) + 1 ELSE 0
     IN  /\ activeSessions' = addMessage(activeSessions, c, role, k, now)
         /\ appended' =
              IF MapHas(activeSessions, c)
              THEN [appended EXCEPT ![c] = Append(@, StoreMessage(k, role, now))]
              ELSE appended
  /\ lastStore' = StoreOp("add", c, "void")
  /\ UNCHANGED <<now, dailyCallStats, storeRest>>

EndSession(c) ==
  /\ storeOps < MaxStoreOps
  /\ storeOps' = storeOps + 1
  /\ activeSessions' = endSession(activeSessions, c)
  /\ appended' = IF MapHas(appended, c) THEN MapDelete(appended, c) ELSE appended
  /\ lastStore' = StoreOp("end", c, getSession(activeSessions, c))
  /\ UNCHANGED <<now, dailyCallStats, storeRest>>

CleanupStaleSessions ==
  /\ storeOps < MaxStoreOps
  /\ storeOps' = storeOps + 1
  /\ activeSessions' = cleanupStaleSessions(activeSessions, now)
  /\ appended' = [c \in DOMAIN appended \cap DOMAIN activeSessions' |-> appended[c]]
  /\ lastStore' = StoreOp("sweep", "none", cleanedSessions(activeSessions, now))
  /\ UNCHANGED <<now, dailyCallStats, storeRest>>

StoreTick(dt) ==
  /\ storeOps < MaxStoreOps
  /\ storeOps' = storeOps + 1
  /\ now' = now + dt
  /\ lastStore' = NoStoreOp
  /\ UNCHANGED <<activeSessions, dailyCallStats, appended, storeRest>>

NextStore ==
  \/ \E c \in StoreCalls : CreateSession(c, "+40700000001")
  \/ \E c \in StoreCalls : GetSession(c)
  \/ \E c \in StoreCalls, role \in StoreRoles : AddMessage(c, role)
  \/ \E c \in StoreCalls : EndSession(c)
  \/ CleanupStaleSessions
  \/ \E dt \in StoreDelays : StoreTick(dt)

SpecStore == InitStore /\ [][NextStore]_vars

(***************************************************************************)
(* Properties of the session store under SpecStore.  After an operation,   *)
(* lastStore holds its kind, the id it was addressed to, whether a session *)
(* was stored for that id, the store and the ledger before it, and what it *)
(* returned.                                                               *)
(***************************************************************************)
StoreDid(op) == lastStore.op = op
OnKnownId    == lastStore.existed
SessionCount(sessions) == Cardinality(DOMAIN sessions)

\* C25: createSession for an id that has a session fails: the session stored
\* (history, start time, last activity) stays as it was and the daily count of
\* the number is not incremented again.
C25_DuplicateCreateFails ==
  (StoreDid("create") /\ OnKnownId) =>
    /\ activeSessions[lastStore.id] = lastStore.before[lastStore.id]
    /\ dailyCallStats = lastStore.ledger

\* What createSession does for an id that has a session: the session is
\* replaced by a new one with an empty history, and the call is counted.
C25_DuplicateCreateReplaces ==
  (StoreDid("create") /\ OnKnownId) =>
    /\ activeSessions[lastStore.id].conversationHistory = <<>>
    /\ activeSessions[lastStore.id].startTime = now
    /\ activeSessions[lastStore.id].lastActivity = now
    /\ dailyCallStats["+40700000001"].count =
         lastStore.ledger["+40700000001"].count + 1

\* A session with a history is replaced.
C25_HistoryLost ==
  /\ StoreDid("create") /\ OnKnownId
  /\ lastStore.before[lastStore.id].conversationHistory # <<>>

\* C26: getSession, getConversationHistory, addMessage and endSession for an
\* id without a session create none and leave the store as it was; they
\* return not-found, the empty list, nothing, and not-found.  Every session
\* is stored under its own call id, one per id.
C26_UnknownIdLeavesStore ==
  /\ \A k \in DOMAIN activeSessions : activeSessions[k].callControlId = k
  /\ (lastStore.op \in {"get", "add", "end"} /\ ~OnKnownId) =>
       /\ activeSessions = lastStore.before
       /\ ~MapHas(activeSessions, lastStore.id)
       /\ StoreDid("get") => /\ ~lastStore.returned.session.found
                             /\ lastStore.returned.history = <<>>
       /\ StoreDid("end") => ~lastStore.returned.found

\* addMessage for an unknown id while another call has a session.
C26_Witness ==
  /\ StoreDid("add") /\ ~OnKnownId
  /\ activeSessions # EmptyMap

C26_UnknownGet == StoreDid("get") /\ ~OnKnownId /\ activeSessions # EmptyMap
C26_UnknownEnd == StoreDid("end") /\ ~OnKnownId /\ activeSessions # EmptyMap
C26_KnownGet ==
  /\ StoreDid("get") /\ OnKnownId
  /\ Len(lastStore.returned.history) = MaxHistory

\* C27: the history of a session holds at most 40 entries, and they are the
\* entries appended last, in the order they were appended; addMessage for a
\* known id sets lastActivity to the time of the call.
C27_HistoryIsLastForty ==
  /\ \A c \in DOMAIN activeSessions :
       LET history == activeSessions[c].conversationHistory
           all     == appended[c]
       IN  /\ Len(history) <= MaxHistory
           /\ Len(history) = IF Len(all) < MaxHistory THEN Len(all) ELSE MaxHistory
           /\ \A i \in 1..Len(history) :
                history[i] = all[Len(all) - Len(history) + i]
  /\ (StoreDid("add") /\ OnKnownId) =>
       activeSessions[lastStore.id].lastActivity = now

\* A message appended to a full history, later than the session's last
\* activity.
C27_Witness ==
  /\ StoreDid("add") /\ OnKnownId
  /\ Len(appended[lastStore.id]) > MaxHistory
  /\ lastStore.before[lastStore.id].lastActivity < now

C27_TwoDropped ==
  /\ StoreDid("add") /\ OnKnownId
  /\ Len(appended[lastStore.id]) >= MaxHistory + 2

\* C28: endSession for an id with a session returns that session and removes
\* it: getSession for the id finds nothing afterwards, one session fewer is
\* stored, and the sessions of the other ids are as they were.
C28_EndReturnsAndRemoves ==
  (StoreDid("end") /\ OnKnownId) =>
    /\ lastStore.returned.found
    /\ lastStore.returned.session = lastStore.before[lastStore.id]
    /\ ~getSession(activeSessions, lastStore.id).found
    /\ SessionCount(activeSessions) = SessionCount(lastStore.before) - 1
    /\ \A k \in DOMAIN lastStore.before \ {lastStore.id} :
         /\ MapHas(activeSessions, k)
         /\ activeSessions[k] = lastStore.before[k]

\* One of two sessions is ended.
C28_Witness ==
  /\ StoreDid("end") /\ OnKnownId
  /\ SessionCount(lastStore.before) = 2

C28_LastSessionEnded ==
  /\ StoreDid("end") /\ OnKnownId
  /\ activeSessions = EmptyMap

\* C29: the sweep removes the sessions whose last activity is more than five
\* minutes back and no other, leaves the sessions it retains as they were,
\* and returns the number of sessions it removed.
C29_SweepRemovesExactlyStale ==
  StoreDid("sweep") =>
    LET old == {k \in DOMAIN lastStore.before :
                  now - lastStore.before[k].lastActivity > 5 * 60 * 1000}
    IN  /\ DOMAIN activeSessions = DOMAIN lastStore.before \ old
        /\ \A k \in DOMAIN activeSessions : activeSessions[k] = lastStore.before[k]
        /\ lastStore.returned = Cardinality(old)

\* A sweep that removes one session and retains another.
C29_Witness ==
  /\ StoreDid("sweep")
  /\ lastStore.returned = 1
  /\ SessionCount(activeSessions) = 1

\* Idle for exactly five minutes: retained.
C29_AtThresholdRetained ==
  /\ StoreDid("sweep")
  /\ \E k \in DOMAIN activeSessions :
       now - activeSessions[k].lastActivity = staleThresholdMs

(***************************************************************************)
(* Specification SpecWs: admission of media sockets.  Five calls have been *)
(* answered; their sockets are opened and closed in any order, and calls   *)
(* hang up.                                                                *)
(***************************************************************************)
WsCalls == {"c1", "c2", "c3", "c4", "c5"}

InitWs ==
  /\ now = Epoch
  /\ VadUnused
  /\ ScenUnused
  /\ AllowUnused
  /\ LedgerUnused
  /\ RateUnused
  /\ StoreUnused
  /\ LateUnused
  /\ allowlist = <<"+40700000001">>
  /\ activeSessions = Answered(WsCalls).sessions
  /\ dailyCallStats = Answered(WsCalls).stats
  /\ vadInstances = [c \in WsCalls |-> NewVAD]
  /\ sessionRateLimits = EmptyMap
  /\ webSocketConnections = {}
  /\ sockets = {}
  /\ answering = EmptyMap
  /\ turns = <<>>
  /\ invoked = [c \in WsCalls |-> [NoInvocations EXCEPT !.answer = 1]]
  /\ progress = [NoProgress EXCEPT !.initiated = WsCalls]
  /\ lastEvent = NoEvent
  /\ activeWsConnections = 0
  /\ refused = {}

NextWs ==
  \/ \E c \in WsCalls : WsOpen(c)
  \/ \E c \in WsCalls : WsClose(c)
  \/ \E c \in WsCalls : CallHangup(c)

SpecWs == InitWs /\ [][NextWs]_vars

\* C23: after any sequence of socket opens and closes, at most
\* MAX_CONCURRENT_WS sockets are admitted and served, and the counter
\* activeWsConnections is the number of sockets admitted and open, so never
\* negative.
C23_AdmissionCapHolds ==
  /\ Cardinality(sockets) <= MAX_CONCURRENT_WS
  /\ activeWsConnections = Cardinality(sockets)
  /\ activeWsConnections >= 0

\* What holds of the counter: it never passes the cap, and it never counts
\* more than the sockets that are open.
C23_CounterNeverAboveCap ==
  /\ activeWsConnections <= MAX_CONCURRENT_WS
  /\ activeWsConnections <= Cardinality(sockets)

\* More sockets served than the cap, and a negative counter.
C23_MoreServedThanCap == Cardinality(sockets) > MAX_CONCURRENT_WS
C23_CounterNegative   == activeWsConnections < 0

(***************************************************************************)
(* Specification SpecAnswer: from call.initiated to call.answered.  The    *)
(* webhook events of the calls in CallIds in every order in which the      *)
(* call-control layer can send them: call.answered follows the answer      *)
(* command, before or after the command's own response, and call.hangup    *)
(* can come at any time.                                                   *)
(***************************************************************************)

\* call.answered: the greeting is spoken; the handler touches neither the
\* session store nor the detectors.
CallAnswered(c) ==
  /\ MapHas(answering, c) \/ MapHas(activeSessions, c)
  /\ c \notin progress.answered
  /\ c \notin progress.hungUp
  /\ progress' = [progress EXCEPT !.answered = @ \cup {c}]
  /\ invoked' = Invoke(invoked, c, "speak")
  /\ lastEvent' = NoEvent
  /\ UNCHANGED <<now, nonCallVars, allowlist, activeSessions, dailyCallStats,
                 vadInstances, sessionRateLimits, webSocketConnections,
                 sockets, answering, turns>>

NextAnswer ==
  \/ \E c \in CallIds, from \in Callers : CallInitiated(c, from)
  \/ \E c \in CallIds, ok \in BOOLEAN : AnswerCallDone(c, ok)
  \/ \E c \in CallIds : CallAnswered(c)
  \/ \E c \in CallIds : CallHangup(c)

SpecAnswer == InitCall /\ [][NextAnswer]_vars

\* C24: the session and the detector of a call are created when the call is
\* reported answered, not earlier: a call that has had no call.answered event
\* has neither.
C24_CreatedWhenAnswered ==
  \A c \in CallIds :
    c \notin progress.answered =>
      /\ ~MapHas(activeSessions, c)
      /\ ~MapHas(vadInstances, c)

\* What the code does: both are created when the answer command returns, and
\* call.answered creates nothing.
C24_CreatedWhenCommandReturns ==
  [][/\ \A c \in CallIds :
          (~MapHas(activeSessions, c) /\ MapHas(activeSessions', c)) =>
             /\ MapHas(answering, c)
             /\ ~MapHas(answering', c)
             /\ MapHas(vadInstances', c)
     /\ (progress'.answered # progress.answered) =>
          /\ activeSessions' = activeSessions
          /\ vadInstances' = vadInstances]_vars

\* While the answer command is under way the call has neither.
C24_NothingBeforeCommandReturns ==
  \A c \in DOMAIN answering :
    /\ ~MapHas(activeSessions, c)
    /\ ~MapHas(vadInstances, c)

\* call.answered arrives for a call that has its session already, and for
\* one whose answer command has not returned yet.
C24_AnsweredAfterSession ==
  \E c \in progress.answered : MapHas(activeSessions, c) /\ MapHas(vadInstances, c)
C24_AnsweredBeforeSession ==
  \E c \in progress.answered : MapHas(answering, c)

(***************************************************************************)
(* Specification SpecLive: two calls in progress at once.  Both were       *)
(* answered CallAgeMs ago and have their media sockets open.  The caller   *)
(* of c1 has just finished a segment, which is being transcribed; the      *)
(* caller of c2 is speaking and has had segments in the running minute.    *)
(* Frames of both calls arrive and the collaborators answer, or fail, in   *)
(* every order.                                                            *)
(***************************************************************************)
\* The detector one frame into a segment.
MidSegment(t) ==
  VadProcess(DefaultVADConfig, NewVAD, LoudFrameSmall, t - FrameMs).vad

LiveWindow(sttCount, t) ==
  [sttCount |-> sttCount, ttsCount |-> 0, windowStart |-> t - BusyWindowMs]

InitLive ==
  /\ now = Epoch + CallAgeMs
  /\ VadUnused
  /\ ScenUnused
  /\ AllowUnused
  /\ LedgerUnused
  /\ RateUnused
  /\ StoreUnused
  /\ LateUnused
  /\ allowlist = <<TurnCaller>>
  /\ activeSessions = Answered(CallIds).sessions
  /\ dailyCallStats = Answered(CallIds).stats
  /\ vadInstances = [c \in CallIds |->
                       IF c = TurnCall THEN IdleAfterSegment(now)
                       ELSE MidSegment(now)]
  /\ \E n \in {1, MAX_STT_PER_SESSION_PER_MINUTE - 1} :
       sessionRateLimits =
         [c \in CallIds |->
            IF c = TurnCall THEN LiveWindow(n, now)
            ELSE LiveWindow(MAX_STT_PER_SESSION_PER_MINUTE - 1, now)]
  /\ webSocketConnections = CallIds
  /\ sockets = CallIds
  /\ activeWsConnections = Cardinality(CallIds)
  /\ refused = {}
  /\ answering = EmptyMap
  /\ turns = <<NewTurn(TurnCall)>>
  /\ invoked = [c \in CallIds |->
                  IF c = TurnCall
                  THEN [NoInvocations EXCEPT !.answer = 1, !.stt = 1]
                  ELSE [NoInvocations EXCEPT !.answer = 1]]
  /\ progress = [NoProgress EXCEPT !.initiated = CallIds]
  /\ lastEvent = NoEvent

NextLive ==
  \/ \E c \in CallIds, audioChunk \in CallFrames : WsMessage(c, audioChunk)
  \/ \E i \in 1..Len(turns), transcription \in Transcripts : SttDone(i, transcription)
  \/ \E i \in 1..Len(turns) : SttFailed(i)
  \/ \E i \in 1..Len(turns) : CortexDone(i)
  \/ \E i \in 1..Len(turns), ok \in BOOLEAN : ClaudeDone(i, ok)
  \/ \E i \in 1..Len(turns) : SpeakDone(i)
  \/ \E i \in 1..Len(turns) : SpeakFailed(i)
  \/ Tick(silenceDurationMs)

SpecLive == InitLive /\ [][NextLive]_vars

\* C21: within a call the segments are served one after the other: the reply
\* of a segment is not dispatched for playback while an earlier segment of
\* the call is still on its way to its reply.
C21_RepliesInSegmentOrder ==
  \A i, j \in 1..Len(turns) :
    (i < j /\ turns[i].id = turns[j].id /\ turns[j].stage = "speak") =>
      turns[i].stage \notin {"cortex", "claude"}

\* The handlers of a call start in segment order; nothing makes one wait for
\* the one before it.
C21_HandlersStartInOrder ==
  [][Len(turns') > Len(turns) =>
       /\ SubSeq(turns', 1, Len(turns)) = turns
       /\ turns'[Len(turns')].stage = "stt"]_vars

\* Two segments of one call in the works at once.
C21_TwoSegmentsInFlight ==
  \E i, j \in 1..Len(turns) : i < j /\ turns[i].id = turns[j].id

\* The call a step belongs to: the call of the frame handled, of the failure
\* caught, or of the handler that went on after an await.
StepOf(a) ==
  \/ lastEvent'.op \in {"frame", "failure"} /\ lastEvent'.id = a
  \/ \E i \in 1..Len(turns) :
       /\ turns[i].id = a
       /\ \/ turns' = RemoveAt(turns, i)
          \/ Len(turns') = Len(turns) /\ turns'[i] # turns[i]

\* Everything kept for call b is as it was.
Untouched(b) ==
  /\ MapHas(vadInstances', b) = MapHas(vadInstances, b)
  /\ MapHas(vadInstances, b) => vadInstances'[b] = vadInstances[b]
  /\ MapHas(sessionRateLimits', b) = MapHas(sessionRateLimits, b)
  /\ MapHas(sessionRateLimits, b) => sessionRateLimits'[b] = sessionRateLimits[b]
  /\ MapHas(activeSessions', b) = MapHas(activeSessions, b)
  /\ MapHas(activeSessions, b) => activeSessions'[b] = activeSessions[b]

\* C22: calls share no detector, no rate-limit window and no session: a
\* frame, a rate-limit consumption or a failure of call a leaves the
\* detector, the window and the session of every other call as they were.
C22_CallsShareNothing ==
  [][\A a \in CallIds : StepOf(a) => \A b \in CallIds \ {a} : Untouched(b)]_vars

\* A segment of one call ends and takes from its budget while the other call
\* is in the middle of a segment of its own.
C22_Witness ==
  /\ FrameArrived
  /\ lastEvent.consumed
  /\ \E b \in CallIds \ {lastEvent.id} :
       /\ vadInstances[b].isSpeaking
       /\ MapHas(sessionRateLimits, b)
       /\ MapHas(activeSessions, b)

\* A failure in one call while the other has a turn in the works.
C22_FailureBesideTurn ==
  /\ lastEvent.op = "failure"
  /\ \E i \in 1..Len(turns) : turns[i].id # lastEvent.id

\* The text of one caller is stored while the other call has a history.
C22_StoredBesideHistory ==
  \E a, b \in CallIds :
    /\ a # b
    /\ activeSessions[a].conversationHistory # <<>>
    /\ activeSessions[b].conversationHistory # <<>>


(***************************************************************************)
(* The emergency path (src/unnamed/part_001, voice-emergency.ts)           *)
(*                                                                         *)
(* A text is a sequence of characters, a character a one-letter string;    *)
(* the Romanian letters with diacritics are written by name ("a-breve",    *)
(* "t-comma", ...), a capital with a capital first letter.                 *)
(***************************************************************************)
\* String.prototype.toLowerCase, one character at a time
toLowerCase(ch) ==
  LET Letters ==
        <<"a", "b", "c", "d", "e", "f", "g", "h", "i", "j", "k", "l", "m", "n", "o", "p", "q", "r", "s", "t", "u", "v", "w", "x", "y", "z",
    "a-breve", "a-circ", "i-circ", "s-comma", "t-comma">>
      Capitals ==
        <<"A", "B", "C", "D", "E", "F", "G", "H", "I", "J", "K", "L", "M", "N", "O", "P", "Q", "R", "S", "T", "U", "V", "W", "X", "Y", "Z",
    "A-breve", "A-circ", "I-circ", "S-comma", "T-comma">>
  IN  IF \E i \in 1..Len(Capitals) : Capitals[i] = ch
      THEN Letters[CHOOSE i \in 1..Len(Capitals) : Capitals[i] = ch]
      ELSE ch

Lowered(text) == [i \in 1..Len(text) |-> toLowerCase(text[i])]

\* String.prototype.includes: phrase occurs in text as a substring
includes(text, phrase) ==
  \E i \in 0..(Len(text) - Len(phrase)) :
     \A j \in 1..Len(phrase) : text[i + j] = phrase[j]

EMERGENCY_PHRASES ==
  [romanian |-> [
      critical |-> <<
        <<"1", "1", "2">>,  \* 112
        <<"a", "m", "b", "u", "l", "a", "n", "t", "a">>,  \* ambulanta
        <<"a", "m", "b", "u", "l", "a", "n", "t-comma", "a-breve">>,  \* ambulan{t-comma}{a-breve}
        <<"s", "u", "n", "a", " ", "l", "a", " ", "a", "m", "b", "u", "l", "a", "n", "t", "a">>,  \* suna la ambulanta
        <<"s", "u", "n", "a-breve", " ", "l", "a", " ", "a", "m", "b", "u", "l", "a", "n", "t-comma", "a-breve">>,  \* sun{a-breve} la ambulan{t-comma}{a-breve}
        <<"n", "u", " ", "p", "o", "t", " ", "r", "e", "s", "p", "i", "r", "a">>,  \* nu pot respira
        <<"n", "u", " ", "p", "o", "t", " ", "s", "a-breve", " ", "r", "e", "s", "p", "i", "r">>,  \* nu pot s{a-breve} respir
        <<"i", "n", "f", "a", "r", "c", "t">>,  \* infarct
        <<"c", "h", "e", "a", "m", "a", " ", "s", "a", "l", "v", "a", "r", "e", "a">>,  \* cheama salvarea
        <<"c", "h", "e", "a", "m", "a-breve", " ", "s", "a", "l", "v", "a", "r", "e", "a">>  \* cheam{a-breve} salvarea
      >>,
      high |-> <<
        <<"u", "r", "g", "e", "n", "t", "a">>,  \* urgenta
        <<"u", "r", "g", "e", "n", "t-comma", "a-breve">>,  \* urgen{t-comma}{a-breve}
        <<"a", "j", "u", "t", "o", "r", " ", "u", "r", "g", "e", "n", "t">>,  \* ajutor urgent
        <<"a", "m", " ", "c", "a", "z", "u", "t">>,  \* am cazut
        <<"a", "m", " ", "c", "a-breve", "z", "u", "t">>,  \* am c{a-breve}zut
        <<"s", "a", "n", "g", "e", "r", "a", "r", "e">>,  \* sangerare
        <<"s", "a-circ", "n", "g", "e", "r", "a", "r", "e">>,  \* s{a-circ}ngerare
        <<"a", "c", "c", "i", "d", "e", "n", "t", " ", "g", "r", "a", "v">>  \* accident grav
      >>,
      medium |-> <<
        <<"a", "j", "u", "t", "o", "r">>,  \* ajutor
        <<"m", "a", " ", "s", "i", "m", "t", " ", "r", "a", "u">>,  \* ma simt rau
        <<"m", "a-breve", " ", "s", "i", "m", "t", " ", "r", "a-breve", "u">>,  \* m{a-breve} simt r{a-breve}u
        <<"d", "u", "r", "e", "r", "e", " ", "p", "u", "t", "e", "r", "n", "i", "c", "a">>,  \* durere puternica
        <<"d", "u", "r", "e", "r", "e", " ", "p", "u", "t", "e", "r", "n", "i", "c", "a-breve">>,  \* durere puternic{a-breve}
        <<"m", "a", " ", "d", "o", "a", "r", "e", " ", "f", "o", "a", "r", "t", "e", " ", "t", "a", "r", "e">>,  \* ma doare foarte tare
        <<"m", "a-breve", " ", "d", "o", "a", "r", "e", " ", "f", "o", "a", "r", "t", "e", " ", "t", "a", "r", "e">>  \* m{a-breve} doare foarte tare
      >>],
   english |-> [
      critical |-> <<
        <<"c", "a", "l", "l", " ", "1", "1", "2">>,  \* call 112
        <<"c", "a", "l", "l", " ", "9", "1", "1">>,  \* call 911
        <<"a", "m", "b", "u", "l", "a", "n", "c", "e">>,  \* ambulance
        <<"c", "a", "n", "'", "t", " ", "b", "r", "e", "a", "t", "h", "e">>,  \* can't breathe
        <<"h", "e", "a", "r", "t", " ", "a", "t", "t", "a", "c", "k">>  \* heart attack
      >>,
      high |-> <<
        <<"e", "m", "e", "r", "g", "e", "n", "c", "y">>,  \* emergency
        <<"i", " ", "f", "e", "l", "l">>,  \* i fell
        <<"b", "l", "e", "e", "d", "i", "n", "g">>,  \* bleeding
        <<"s", "t", "r", "o", "k", "e">>,  \* stroke
        <<"h", "e", "l", "p", " ", "m", "e">>  \* help me
      >>,
      medium |-> <<
        <<"h", "e", "l", "p">>,  \* help
        <<"i", " ", "f", "e", "e", "l", " ", "s", "i", "c", "k">>,  \* i feel sick
        <<"c", "h", "e", "s", "t", " ", "p", "a", "i", "n">>  \* chest pain
      >>]]

\* detectEmergency without the lower-casing of the text
detectEmergencyCaseSensitive(text) ==
  LET Hits(list) == SelectSeq(list, LAMBDA p : includes(text, p))
      roC == Hits(EMERGENCY_PHRASES.romanian.critical)
      enC == Hits(EMERGENCY_PHRASES.english.critical)
      sev == IF Len(roC) + Len(enC) > 0 THEN "critical" ELSE "none"
  IN  [isEmergency |-> sev # "none", severity |-> sev,
       detectedPhrases |-> roC \o enC,
       language |-> IF Len(roC) > 0 THEN "romanian"
                    ELSE IF Len(enC) > 0 THEN "english" ELSE "unknown",
       requiresConfirmation |-> sev = "medium"]

detectEmergency(text) ==
  LET lowerText == Lowered(text)
      Hits(list) == SelectSeq(list, LAMBDA p : includes(lowerText, p))
      \* critical phrases are always looked for
      roC  == Hits(EMERGENCY_PHRASES.romanian.critical)
      enC  == Hits(EMERGENCY_PHRASES.english.critical)
      sev1 == IF Len(roC) + Len(enC) > 0 THEN "critical" ELSE "none"
      \* high phrases unless the severity is critical already
      roH  == IF sev1 # "critical" THEN Hits(EMERGENCY_PHRASES.romanian.high)
              ELSE <<>>
      enH  == IF sev1 # "critical" THEN Hits(EMERGENCY_PHRASES.english.high)
              ELSE <<>>
      sev2 == IF Len(roH) + Len(enH) > 0 THEN "high" ELSE sev1
      \* medium phrases only while the severity is still none
      roM  == IF sev2 = "none" THEN Hits(EMERGENCY_PHRASES.romanian.medium)
              ELSE <<>>
      enM  == IF sev2 = "none" THEN Hits(EMERGENCY_PHRASES.english.medium)
              ELSE <<>>
      sev3 == IF Len(roM) + Len(enM) > 0 THEN "medium" ELSE sev2
      \* a Romanian match sets the language, an English one only if unset
      lang == IF Len(roC) + Len(roH) + Len(roM) > 0 THEN "romanian"
              ELSE IF Len(enC) + Len(enH) + Len(enM) > 0 THEN "english"
              ELSE "unknown"
  IN  [isEmergency |-> sev3 # "none", severity |-> sev3,
       detectedPhrases |-> roC \o enC \o roH \o enH \o roM \o enM,
       language |-> lang,
       requiresConfirmation |-> sev3 = "medium"]

\* the key of EMERGENCY_RESPONSES that is returned
getEmergencyResponse(language, requiresConfirmation) ==
  IF requiresConfirmation
  THEN IF language = "english" THEN "englishConfirmation"
       ELSE "romanianConfirmation"
  ELSE IF language = "english" THEN "english" ELSE "romanian"

maxRetries == 3

\* delayMs of the wait that follows a failed attempt
BackoffMs(attempt) == (2 ^ (attempt - 1)) * 1000

\* sendEmergencyAlert up to its first await: the first fetch is in flight
sendEmergencyAlert ==
  [state |-> "fetching", attempt |-> 1, wakeAt |-> 0, waits |-> <<>>,
   logged |-> 0, ok |-> FALSE]

\* logEmergencyToCortex up to its await: the one fetch is in flight
logEmergencyToCortex == [state |-> "fetching", logged |-> 0]

FetchOutcomes == {"ok", "status", "exception"}

\* the loop body after a fetch that retries once more than maxRetries
AfterAttemptOneMore(task, outcome, t) ==
  IF outcome = "ok"
  THEN [task EXCEPT !.state = "done", !.ok = TRUE]
  ELSE IF task.attempt < maxRetries + 1
       THEN [task EXCEPT !.state = "waiting", !.logged = @ + 1,
                         !.wakeAt = t + BackoffMs(task.attempt),
                         !.waits = Append(@, BackoffMs(task.attempt))]
       ELSE [task EXCEPT !.state = "done", !.logged = @ + 2]

\* the loop body of sendEmergencyAlert once the fetch of an attempt settled:
\* ok returns; an error status and an exception are logged alike, then the
\* task waits if an attempt is left, else logs that all attempts failed
AfterAttempt(task, outcome, t) ==
  IF outcome = "ok"
  THEN [task EXCEPT !.state = "done", !.ok = TRUE]
  ELSE IF task.attempt < maxRetries
       THEN [task EXCEPT !.state = "waiting", !.logged = @ + 1,
                         !.wakeAt = t + BackoffMs(task.attempt),
                         !.waits = Append(@, BackoffMs(task.attempt))]
       ELSE [task EXCEPT !.state = "done", !.logged = @ + 2]

\* handleEmergency that alerts on any emergency, confirmed or not
handleEmergencyAlertsOnMedium(text) ==
  LET detection == detectEmergency(text)
  IN  IF ~detection.isEmergency
      THEN [detection |-> detection, response |-> "null",
            alert |-> NoAlertTask, log |-> NoLogTask]
      ELSE [detection |-> detection,
            response |-> getEmergencyResponse(detection.language,
                                              detection.requiresConfirmation),
            alert |-> sendEmergencyAlert, log |-> logEmergencyToCortex]

\* handleEmergency that awaits the alert before it returns
handleEmergencyAwaitsAlert(text) ==
  LET detection == detectEmergency(text)
  IN  IF ~detection.isEmergency
      THEN [detection |-> detection, response |-> "null",
            alert |-> NoAlertTask, log |-> NoLogTask]
      ELSE IF detection.requiresConfirmation
      THEN [detection |-> detection,
            response |-> getEmergencyResponse(detection.language, TRUE),
            alert |-> NoAlertTask, log |-> NoLogTask]
      ELSE [detection |-> detection,
            response |-> getEmergencyResponse(detection.language, FALSE),
            alert |-> AfterAttempt(sendEmergencyAlert, "ok", 0),
            log |-> logEmergencyToCortex]

\* what handleEmergency returns, and the tasks it leaves behind
handleEmergency(text) ==
  LET detection == detectEmergency(text)
  IN  IF ~detection.isEmergency
      THEN [detection |-> detection, response |-> "null",
            alert |-> NoAlertTask, log |-> NoLogTask]
      ELSE IF detection.requiresConfirmation
      THEN [detection |-> detection,
            response |-> getEmergencyResponse(detection.language, TRUE),
            alert |-> NoAlertTask, log |-> NoLogTask]
      ELSE [detection |-> detection,
            response |-> getEmergencyResponse(detection.language, FALSE),
            alert |-> sendEmergencyAlert, log |-> logEmergencyToCortex]

(***************************************************************************)
(* Specification SpecEmergency: one turn calls handleEmergency on a        *)
(* transcription; the tasks it started run beside the turn.                *)
(***************************************************************************)
MaxTextParts == 2     \* pieces a transcription is put together from
EmTickMs     == 500   \* step of the clock while a backoff timer is armed

TextPieces ==
  {
    <<"H", "e", "l", "p">>,
    <<" ", "m", "e">>,
    <<"a", "j", "u", "t", "o", "r">>,
    <<" ", "u", "r", "g", "e", "n", "t">>,
    <<"A", "M", "B", "U", "L", "A", "N", "T-comma", "A-breve">>,
    <<"h", "e", "l", "l", "o", " ">>,
    <<"1">>,
    <<"1", "2">>,
    <<"M", "A-breve", " ", "S", "I", "M", "T", " ", "R", "A-breve", "U">>
  }

RECURSIVE TextsOf(_)
TextsOf(n) ==
  IF n = 0 THEN {<<>>}
  ELSE TextsOf(n - 1) \cup
       {t \o p : t \in TextsOf(n - 1), p \in TextPieces}

EmergencyTexts == TextsOf(MaxTextParts)

emRest == <<vadVars, scenVars, allowVars, callVars, ledgerVars, rateVars,
            wsVars, storeVars, codecVars, sockVars, totpVars, lockVars,
            browserVars>>

InitEmergency ==
  /\ now = Epoch
  /\ VadUnused
  /\ ScenUnused
  /\ AllowUnused
  /\ CallUnused
  /\ LedgerUnused
  /\ RateUnused
  /\ WsUnused
  /\ StoreUnused
  /\ LateUnused

\* the turn awaits handleEmergency(transcription, ...)
HandleEmergency(text) ==
  /\ emCall.stage = "idle"
  /\ LET out == handleEmergency(text)
     IN  /\ emCall' = [stage |-> "returned", text |-> text,
                       detection |-> out.detection,
                       response |-> out.response]
         /\ alertTask' = out.alert
         /\ logTask' = out.log
  /\ UNCHANGED <<now, emRest>>

\* the turn goes on with the response, or with Claude when it is null
CallPathContinues ==
  /\ emCall.stage = "returned"
  /\ emCall' = [emCall EXCEPT !.stage = "spoken"]
  /\ UNCHANGED <<now, alertTask, logTask, emRest>>

\* the fetch of the current attempt settles
AlertFetch(outcome) ==
  /\ alertTask.state = "fetching"
  /\ alertTask' = AfterAttempt(alertTask, outcome, now)
  /\ UNCHANGED <<now, emCall, logTask, emRest>>

\* the backoff timer fires: the loop goes round
AlertWake ==
  /\ alertTask.state = "waiting"
  /\ now >= alertTask.wakeAt
  /\ alertTask' = [alertTask EXCEPT !.state = "fetching",
                                    !.attempt = @ + 1]
  /\ UNCHANGED <<now, emCall, logTask, emRest>>

\* the fetch of logEmergencyToCortex settles; a failure is logged
LogFetch(outcome) ==
  /\ logTask.state = "fetching"
  /\ logTask' = [state |-> "done",
                 logged |-> IF outcome = "ok" THEN 0 ELSE 1]
  /\ UNCHANGED <<now, emCall, alertTask, emRest>>

\* time passes while a backoff timer is armed
EmTick ==
  /\ alertTask.state = "waiting"
  /\ now < alertTask.wakeAt
  /\ now' = now + EmTickMs
  /\ UNCHANGED <<emVars, emRest>>

NextEmergency ==
  \/ \E text \in EmergencyTexts : HandleEmergency(text)
  \/ CallPathContinues
  \/ \E outcome \in FetchOutcomes : AlertFetch(outcome)
  \/ AlertWake
  \/ \E outcome \in FetchOutcomes : LogFetch(outcome)
  \/ EmTick

SpecEmergency == InitEmergency /\ [][NextEmergency]_vars

\* every fetch settles and every armed timer fires
SpecEmergencyFair ==
  /\ SpecEmergency
  /\ WF_vars(\E outcome \in FetchOutcomes : AlertFetch(outcome))
  /\ WF_vars(AlertWake)
  /\ WF_vars(EmTick)

\* ---- vocabulary of the emergency claims ----
Returned == emCall.stage # "idle"
LowerText == Lowered(emCall.text)
Matches(tier) ==
  \E lang \in {"romanian", "english"} :
     \E i \in 1..Len(EMERGENCY_PHRASES[lang][tier]) :
        includes(LowerText, EMERGENCY_PHRASES[lang][tier][i])
HighestTier ==
  IF Matches("critical") THEN "critical"
  ELSE IF Matches("high") THEN "high"
  ELSE IF Matches("medium") THEN "medium"
  ELSE "none"
AlertStarted == alertTask.state # "none"
LogStarted == logTask.state # "none"
HandleStep == emCall.stage = "idle" /\ emCall'.stage = "returned"

\* C33: the severity reported for a text is the highest tier that has a
\* phrase occurring in the lower-cased text, in either language (critical,
\* else high, else medium, else none); isEmergency holds exactly when the
\* severity is not none, requiresConfirmation exactly when it is medium
C33_HighestTierReported ==
  Returned =>
    /\ emCall.detection.severity = HighestTier
    /\ emCall.detection.isEmergency <=> HighestTier # "none"
    /\ emCall.detection.requiresConfirmation <=> HighestTier = "medium"

\* a capitalised text with a critical phrase that also holds a medium one
C33_CapitalCriticalText ==
  /\ Returned
  /\ emCall.text # LowerText
  /\ HighestTier = "critical"
  /\ Matches("medium")

\* a text whose high phrase contains a medium phrase
C33_HighOverMedium ==
  /\ Returned
  /\ HighestTier = "high"
  /\ Matches("medium")
  /\ emCall.detection.severity = "high"

\* C34: handleEmergency starts an alert exactly when the severity is
\* critical or high; on medium it returns the confirmation prompt and starts
\* neither alert nor log; on no phrase it returns null and starts no alert
C34_AlertOnlyCriticalOrHigh ==
  [][HandleStep =>
       /\ (alertTask'.state # "none")
            <=> emCall'.detection.severity \in {"critical", "high"}
       /\ emCall'.detection.severity = "medium" =>
            /\ emCall'.response \in {"romanianConfirmation",
                                     "englishConfirmation"}
            /\ alertTask'.state = "none"
            /\ logTask'.state = "none"
       /\ emCall'.detection.severity = "none" =>
            /\ emCall'.response = "null"
            /\ alertTask'.state = "none"]_vars

C34_MediumAsked ==
  /\ emCall.stage = "returned"
  /\ emCall.detection.severity = "medium"
  /\ emCall.response = "romanianConfirmation"
  /\ ~AlertStarted

C34_HighAlerted ==
  /\ emCall.stage = "returned"
  /\ emCall.detection.severity = "high"
  /\ AlertStarted

\* C31: handleEmergency returns with its tasks still in flight and without
\* time passing; whatever the tasks do afterwards, failing every attempt
\* included, changes nothing of the turn, which can always go on
C31_SideEffectsDetached ==
  /\ [][HandleStep =>
          /\ alertTask'.state \in {"none", "fetching"}
          /\ logTask'.state \in {"none", "fetching"}
          /\ now' = now]_vars
  /\ [][(Returned /\ (alertTask' # alertTask \/ logTask' # logTask))
          => emCall' = emCall]_vars
  /\ [](emCall.stage = "returned" => ENABLED CallPathContinues)

\* the turn went on while the alert had failed every attempt and the log too
C31_SpokenAfterAllFailed ==
  /\ emCall.stage = "spoken"
  /\ alertTask.state = "done"
  /\ ~alertTask.ok
  /\ logTask.state = "done"
  /\ logTask.logged = 1

\* the turn went on while the first fetch of the alert was still in flight
C31_SpokenWhileFetching ==
  /\ emCall.stage = "spoken"
  /\ alertTask.state = "fetching"
  /\ alertTask.attempt = 1
  /\ logTask.state = "fetching"

\* C35: sendEmergencyAlert makes at most 3 attempts and none after the first
\* ok; between failed attempts it waits 1 s, then 2 s, and not after the
\* last; it always ends, and ends by returning
C35_AlertRetriesBounded ==
  /\ [](AlertStarted =>
          /\ alertTask.attempt \in 1..3
          /\ alertTask.state \in {"fetching", "waiting", "done"}
          /\ alertTask.waits =
               [i \in 1..(IF alertTask.state = "waiting"
                          THEN alertTask.attempt
                          ELSE alertTask.attempt - 1) |->
                  IF i = 1 THEN 1000 ELSE 2000]
          /\ alertTask.state = "done" =>
               (alertTask.ok \/ alertTask.attempt = 3))
  /\ [][alertTask.state = "done" => alertTask' = alertTask]_vars
  /\ [][(alertTask.state = "waiting" /\ alertTask'.state = "fetching")
          => now >= alertTask.wakeAt]_vars
  /\ (AlertStarted ~> alertTask.state = "done")

\* all three attempts failed, one by status and one by exception
C35_ThreeFailures ==
  /\ alertTask.state = "done"
  /\ ~alertTask.ok
  /\ alertTask.attempt = 3
  /\ alertTask.waits = <<1000, 2000>>

\* the second attempt succeeded after one wait
C35_OkOnSecond ==
  /\ alertTask.state = "done"
  /\ alertTask.ok
  /\ alertTask.attempt = 2


(***************************************************************************)
(* The mu-law codec: pcm16ToMulaw (src/unnamed/part_003, voice-agent.ts)   *)
(* and VoiceActivityDetector.mulawToPCM16 (src/src/tts.ts).  A buffer is a *)
(* sequence of bytes; the bit operations of the code are written as the    *)
(* arithmetic they perform on 32-bit integers.                             *)
(***************************************************************************)
MULAW_BIAS == 132      \* 0x84
MULAW_CLIP == 32635

\* Buffer.readInt16LE at byte offset i (0-based)
readInt16LE(buf, i) ==
  LET u == buf[i + 1] + 256 * buf[i + 2]
  IN  IF u >= 32768 THEN u - 65536 ELSE u

\* Buffer.writeInt16LE of a value in -32768..32767: its two bytes
writeInt16LE(value) ==
  LET u == IF value < 0 THEN value + 65536 ELSE value
  IN  <<u % 256, u \div 256>>

\* the exponent loop: the first exp in 0..7 with sample <= (0xFF << exp),
\* and 7 when there is none
ExponentOf(sample) ==
  IF \E exp \in 0..7 : sample <= 255 * (2 ^ exp)
  THEN CHOOSE exp \in 0..7 :
         /\ sample <= 255 * (2 ^ exp)
         /\ \A e \in 0..(exp - 1) : ~(sample <= 255 * (2 ^ e))
  ELSE 7

\* the byte pcm16ToMulaw stores for one sample
EncodeSample(s) ==
  LET sign     == IF s < 0 THEN 128 ELSE 0
      abs      == IF sign # 0 THEN -s ELSE s
      clipped  == IF abs > MULAW_CLIP THEN MULAW_CLIP ELSE abs
      sample   == clipped + MULAW_BIAS
      exponent == ExponentOf(sample)
      mantissa == (sample \div (2 ^ (exponent + 3))) % 16
      mulaw    == sign + exponent * 16 + mantissa   \* disjoint bit fields
  IN  (-mulaw - 1) % 256                            \* ~mulaw, stored in a byte

pcm16ToMulaw(pcm16Buffer) ==
  [k \in 1..(Len(pcm16Buffer) \div 2) |->
     EncodeSample(readInt16LE(pcm16Buffer, 2 * (k - 1)))]

\* the sample mulawToPCM16 writes for one byte
DecodeByte(mulaw) ==
  LET inverted == -mulaw - 1                        \* ~mulaw
      sign     == (inverted \div 128) % 2           \* (inverted >> 7) & 0x01
      exponent == (inverted \div 16) % 8            \* (inverted >> 4) & 0x07
      mantissa == inverted % 16                     \* inverted & 0x0F
      linear   == (mantissa * 8 + MULAW_BIAS) * (2 ^ exponent)
      signed   == IF sign = 0 THEN -linear ELSE linear
  IN  IF signed < -32768 THEN -32768
      ELSE IF signed > 32767 THEN 32767 ELSE signed

RECURSIVE Flatten(_)
Flatten(pairs) ==
  IF pairs = <<>> THEN <<>> ELSE Head(pairs) \o Flatten(Tail(pairs))

mulawToPCM16(mulawBuffer) ==
  Flatten([k \in 1..Len(mulawBuffer) |-> writeInt16LE(DecodeByte(mulawBuffer[k]))])

(***************************************************************************)
(* Specification SpecCodec: a buffer of samples is encoded, then decoded.  *)
(***************************************************************************)
MaxCodecLen == 2     \* samples in a buffer

CodecSamples == {0, 1, -1, 100, -100, 379, 1000, -1000, 32767, -32768}

RECURSIVE SampleSeqs(_)
SampleSeqs(n) ==
  IF n = 0 THEN {<<>>}
  ELSE SampleSeqs(n - 1) \cup
       {Append(q, x) : q \in SampleSeqs(n - 1), x \in CodecSamples}

codecRest == <<now, vadVars, scenVars, allowVars, callVars, ledgerVars,
               rateVars, wsVars, storeVars, emVars, sockVars, totpVars,
               lockVars, browserVars>>

InitCodec ==
  /\ now = Epoch
  /\ VadUnused
  /\ ScenUnused
  /\ AllowUnused
  /\ CallUnused
  /\ LedgerUnused
  /\ RateUnused
  /\ WsUnused
  /\ StoreUnused
  /\ EmUnused
  /\ SockUnused
  /\ TotpUnused
  /\ LockUnused
  /\ BrowserUnused
  /\ \E q \in SampleSeqs(MaxCodecLen) :
        codecPcm = Flatten([k \in 1..Len(q) |-> writeInt16LE(q[k])])
  /\ codecMulaw = <<>>
  /\ codecOut = <<>>
  /\ codecStage = "raw"

Encode ==
  /\ codecStage = "raw"
  /\ codecMulaw' = pcm16ToMulaw(codecPcm)
  /\ codecStage' = "encoded"
  /\ UNCHANGED <<codecPcm, codecOut, codecRest>>

Decode ==
  /\ codecStage = "encoded"
  /\ codecOut' = mulawToPCM16(codecMulaw)
  /\ codecStage' = "decoded"
  /\ UNCHANGED <<codecPcm, codecMulaw, codecRest>>

NextCodec == Encode \/ Decode

SpecCodec == InitCodec /\ [][NextCodec]_vars

\* ---- vocabulary of the codec claim ----
SamplesIn == Len(codecPcm) \div 2
SampleIn(k)  == readInt16LE(codecPcm, 2 * (k - 1))
SampleOut(k) == readInt16LE(codecOut, 2 * (k - 1))
Magnitude(x) == IF x < 0 THEN -x ELSE x
Sign(x) == IF x < 0 THEN -1 ELSE IF x > 0 THEN 1 ELSE 0
\* the quantisation step of the segment a sample falls in
SegmentStep(x) ==
  LET clipped == IF Magnitude(x) > MULAW_CLIP THEN MULAW_CLIP ELSE Magnitude(x)
  IN  2 ^ (ExponentOf(clipped + MULAW_BIAS) + 3)

\* C32: for every sample x of an even-length buffer the round trip
\* mulawToPCM16(pcm16ToMulaw(x)) has the sign of x and a magnitude within
\* the step size of x's segment
C32_RoundTripClose ==
  codecStage = "decoded" =>
    /\ Len(codecOut) = Len(codecPcm)
    /\ \A k \in 1..SamplesIn :
          /\ Sign(SampleOut(k)) * Sign(SampleIn(k)) >= 0
          /\ Magnitude(Magnitude(SampleOut(k)) - Magnitude(SampleIn(k)))
               <= SegmentStep(SampleIn(k))

\* the sample 100 comes back as -236
C32_HundredComesBackNegative ==
  /\ codecStage = "decoded"
  /\ SamplesIn = 1
  /\ SampleIn(1) = 100
  /\ SampleOut(1) = -236

\* what the pair of functions does do: the buffer keeps its length, every
\* sample comes back with the opposite sign (0 as a negative sample) and a
\* magnitude that is a code point of the biased scale, 132..32256
C32_ComesBackNegatedAndBiased ==
  codecStage = "decoded" =>
    /\ Len(codecOut) = Len(codecPcm)
    /\ \A k \in 1..SamplesIn :
          /\ (SampleIn(k) >= 0) <=> (SampleOut(k) < 0)
          /\ Magnitude(SampleOut(k)) \in 132..32256


(***************************************************************************)
(* Specification SpecReconnect: the media sockets of the calls, told       *)
(* apart.  A socket is the index of its record in conns.  The calls have   *)
(* been answered (session and detector exist); sockets are upgraded,       *)
(* opened and closed in any order.  A close callback runs some time after  *)
(* the close it answers: at once, or after other callbacks.                *)
(***************************************************************************)
MaxSockets == 4      \* sockets upgraded in one behaviour

SockCalls == {"c1", "c2"}

sockRest == <<now, vadVars, scenVars, allowVars, callVars, ledgerVars,
              rateVars, storeVars, emVars, codecVars, totpVars, lockVars,
              browserVars, refused>>

InitReconnect ==
  /\ now = Epoch
  /\ VadUnused
  /\ ScenUnused
  /\ AllowUnused
  /\ LedgerUnused
  /\ RateUnused
  /\ StoreUnused
  /\ LateUnused
  /\ allowlist = <<"+40700000001">>
  /\ activeSessions = Answered(SockCalls).sessions
  /\ dailyCallStats = Answered(SockCalls).stats
  /\ vadInstances = [c \in SockCalls |-> NewVAD]
  /\ sessionRateLimits = EmptyMap
  /\ webSocketConnections = {}
  /\ sockets = {}
  /\ answering = EmptyMap
  /\ turns = <<>>
  /\ invoked = [c \in SockCalls |-> [NoInvocations EXCEPT !.answer = 1]]
  /\ progress = [NoProgress EXCEPT !.initiated = SockCalls]
  /\ lastEvent = NoEvent
  /\ activeWsConnections = 0
  /\ refused = {}

\* ws.close(...) by the server: the socket's close callback becomes due
ServerClose(cs, w, why) ==
  IF w \in 1..Len(cs) /\ cs[w].state \in {"upgraded", "open"}
  THEN [cs EXCEPT ![w].state = "closing", ![w].why = why]
  ELSE cs

\* how many sockets have been handed to handleTelnyxWsOpen so far
Served(cs) == Cardinality({w \in 1..Len(cs) : cs[w].order > 0})

\* GET /voice/stream?call_id=c with an upgrade header: a connection the
\* map holds is closed and its entry deleted, then the request is upgraded
Upgrade(c) ==
  /\ Len(conns) < MaxSockets
  /\ MapHas(activeSessions, c)
  /\ LET replaced == IF MapHas(wsConnOf, c)
                     THEN ServerClose(conns, wsConnOf[c], "replaced")
                     ELSE conns
     IN  conns' = Append(replaced, [call |-> c, state |-> "upgraded",
                                    order |-> 0, why |-> "none"])
  /\ wsConnOf' = MapDelete(wsConnOf, c)
  /\ sockLast' = [op |-> "upgrade"]
  /\ UNCHANGED <<activeWsConnections, sockRest>>

\* websocket.open(ws) and handleTelnyxWsOpen
SocketOpen(w) ==
  /\ w \in 1..Len(conns)
  /\ conns[w].state = "upgraded"
  /\ sockLast' = [op |-> "open"]
  /\ IF activeWsConnections + 1 > MAX_CONCURRENT_WS
     THEN /\ conns' = ServerClose(conns, w, "refused")
          /\ UNCHANGED <<activeWsConnections, wsConnOf>>
     ELSE /\ activeWsConnections' = activeWsConnections + 1
          /\ wsConnOf' = MapSet(wsConnOf, conns[w].call, w)
          /\ LET opened == [conns EXCEPT ![w].state = "open",
                                         ![w].order = Served(conns) + 1]
             IN  conns' = IF MapHas(vadInstances, conns[w].call)
                          THEN opened
                          ELSE ServerClose(opened, w, "no detector")
  /\ UNCHANGED sockRest

\* websocket.close(ws) and handleTelnyxWsClose, for a socket the peer closes
\* or the server has closed
SocketClose(w) ==
  /\ w \in 1..Len(conns)
  /\ conns[w].state \in {"open", "closing"}
  /\ activeWsConnections' = activeWsConnections - 1
  /\ wsConnOf' = MapDelete(wsConnOf, conns[w].call)
  /\ conns' = [conns EXCEPT ![w].state = "closed"]
  /\ sockLast' = [op |-> "close", w |-> w,
                  removed |-> IF MapHas(wsConnOf, conns[w].call)
                              THEN wsConnOf[conns[w].call] ELSE 0]
  /\ UNCHANGED sockRest

NextReconnect ==
  \/ \E c \in SockCalls : Upgrade(c)
  \/ \E w \in 1..MaxSockets : SocketOpen(w)
  \/ \E w \in 1..MaxSockets : SocketClose(w)

SpecReconnect == InitReconnect /\ [][NextReconnect]_vars

\* ---- vocabulary of the connection claim ----
LiveSockets(c) ==
  {w \in 1..Len(conns) : conns[w].call = c /\ conns[w].state = "open"}
LatestLive(c) ==
  CHOOSE w \in LiveSockets(c) :
    \A v \in LiveSockets(c) : conns[v].order <= conns[w].order
ClosedOther ==
  /\ sockLast.op = "close"
  /\ sockLast.removed # 0
  /\ sockLast.removed # sockLast.w
  /\ conns[sockLast.removed].state = "open"

\* C40: for every call id that has an open media socket, webSocketConnections
\* maps the id to the most recently opened of its open sockets, whatever the
\* order of the open and close callbacks
C40_EntryIsLatestLive ==
  \A c \in SockCalls :
     LiveSockets(c) # {} =>
       /\ MapHas(wsConnOf, c)
       /\ wsConnOf[c] = LatestLive(c)

\* the close callback of a replaced socket removed the entry of the socket
\* that replaced it
C40_ReplacedCloseRemovedLive ==
  /\ ClosedOther
  /\ conns[sockLast.w].why = "replaced"

\* the close callback of a refused socket removed the entry of an open one
C40_RefusedCloseRemovedLive ==
  /\ ClosedOther
  /\ conns[sockLast.w].why = "refused"

\* what does hold: an entry always names a socket of its own call id that
\* was opened and whose close callback has not run
C40_EntryNamesOwnSocket ==
  \A c \in DOMAIN wsConnOf :
     /\ wsConnOf[c] \in 1..Len(conns)
     /\ conns[wsConnOf[c]].call = c
     /\ conns[wsConnOf[c]].state \in {"open", "closing"}


(***************************************************************************)
(* Specification SpecBrowser: one browser test session                     *)
(* (src/unnamed/part_003, handleBrowserTestMessage).  The 16 kHz frames    *)
(* are numbered as they arrive; the per-session buffer and the audio       *)
(* handed to transcription are sequences of frame numbers.                 *)
(***************************************************************************)
MaxBrowserFrames == 5     \* audio messages in one behaviour

\* downsample16to8: every second sample of the 16 kHz buffer
downsample16to8(pcm16_16k) == Frame(pcm16_16k.s, pcm16_16k.n \div 2)

\* 16 kHz frames of FrameMs: quiet, and loud
BrowserFrameQuiet == Frame(0, 2 * FrameSamples)
BrowserFrameLoud  == Frame(energyThreshold + 1, 2 * FrameSamples)
BrowserFrames == {BrowserFrameQuiet, BrowserFrameLoud}
BrowserDelays == {FrameMs, silenceDurationMs}

browserRest == <<vadVars, scenVars, allowVars, callVars, ledgerVars,
                 rateVars, wsVars, storeVars, emVars, codecVars, sockVars,
                 totpVars, lockVars>>

\* handleBrowserTestOpen has run: detector and empty buffer are in the maps
InitBrowser ==
  /\ now = Epoch
  /\ VadUnused
  /\ ScenUnused
  /\ AllowUnused
  /\ CallUnused
  /\ LedgerUnused
  /\ RateUnused
  /\ WsUnused
  /\ StoreUnused
  /\ LateUnused

\* an audio message arrives dt ms after the one before: the handler up to
\* its first await (or to its end, when the event is not speech_end)
BrowserMessage(pcm16_16k, dt) ==
  /\ bframes < MaxBrowserFrames
  /\ now' = now + dt
  /\ bframes' = bframes + 1
  /\ LET n      == bframes + 1
         pushed == Append(bbuf, n)                \* audioBuffer16k.push
         out    == VadProcess(DefaultVADConfig, bvad,
                              downsample16to8(pcm16_16k), now')
         ev     == out.res.event
     IN  /\ bvad' = out.vad
         /\ bbuf' = IF ev = "speech_start" THEN <<n>> ELSE pushed
         /\ bflight' = IF ev = "speech_end" /\ Len(pushed) > 0
                       THEN Append(bflight, [audio |-> pushed])
                       ELSE bflight
         /\ bseg' = IF ev = "speech_start" THEN <<n>>
                    ELSE IF out.vad.isSpeaking THEN Append(bseg, n)
                    ELSE <<>>
         /\ blast' = [op |-> "message", event |-> ev,
                      handed |-> IF ev = "speech_end" THEN pushed ELSE <<>>,
                      segment |-> Append(bseg, n),
                      idle |-> ~bvad.isSpeaking /\ ~out.vad.isSpeaking,
                      before |-> Len(bbuf)]
  /\ UNCHANGED browserRest

\* a suspended handler gets through transcription, reply and synthesis (or
\* an empty transcription) and reaches browserAudioBuffers.set(sessionId, [])
BrowserHandlerDone(i) ==
  /\ i \in 1..Len(bflight)
  /\ bflight' = RemoveAt(bflight, i)
  /\ bbuf' = <<>>
  /\ blast' = [op |-> "done"]
  /\ UNCHANGED <<now, bvad, bframes, bseg, browserRest>>

\* a suspended handler ends in its catch block: the buffer is left alone
BrowserHandlerThrew(i) ==
  /\ i \in 1..Len(bflight)
  /\ bflight' = RemoveAt(bflight, i)
  /\ blast' = [op |-> "threw"]
  /\ UNCHANGED <<now, bvad, bbuf, bframes, bseg, browserRest>>

NextBrowser ==
  \/ \E f \in BrowserFrames, dt \in BrowserDelays : BrowserMessage(f, dt)
  \/ \E i \in 1..MaxBrowserFrames : BrowserHandlerDone(i)
  \/ \E i \in 1..MaxBrowserFrames : BrowserHandlerThrew(i)

SpecBrowser == InitBrowser /\ [][NextBrowser]_vars

\* C39: the audio handed to transcription at a speech_end is exactly the
\* frames received from the segment's speech_start through its speech_end,
\* also when frames of the segment arrived while the handler of the segment
\* before was in flight; and a frame that arrives while the detector is Idle
\* does not make the session's 16 kHz buffer longer
C39_SegmentAudioExact ==
  blast.op = "message" =>
    /\ blast.event = "speech_end" => blast.handed = blast.segment
    /\ blast.idle => Len(bbuf) <= blast.before

\* a segment was handed over without its first frames, which the handler of
\* the segment before had cleared away
C39_LaterSegmentLostFrames ==
  /\ blast.op = "message"
  /\ blast.event = "speech_end"
  /\ Len(blast.handed) < Len(blast.segment)

\* the buffer holds frames that arrived while the detector was Idle
C39_GrewWhileIdle ==
  /\ blast.op = "message"
  /\ blast.idle
  /\ Len(bbuf) = blast.before + 1
  /\ bflight = <<>>

\* what does hold: the audio handed over is always the end of the segment,
\* and the whole segment when no handler finished while it was open
C39_HandedIsEndOfSegment ==
  (blast.op = "message" /\ blast.event = "speech_end") =>
    /\ Len(blast.handed) <= Len(blast.segment)
    /\ blast.handed =
         SubSeq(blast.segment, Len(blast.segment) - Len(blast.handed) + 1,
                Len(blast.segment))


(***************************************************************************)
(* Specification SpecLock: relay processes starting up against one lock    *)
(* file (src/unnamed/part_004, relay.ts).  A process is its pid; the file  *)
(* holds a pid, 0 stands for no file.                                      *)
(***************************************************************************)
MaxProcs == 3        \* relay processes started in one behaviour
StalePid == 9        \* the pid of a process that is gone

LockPids == 1..MaxProcs

lockRest == <<now, vadVars, scenVars, allowVars, callVars, ledgerVars,
              rateVars, wsVars, storeVars, emVars, codecVars, sockVars,
              totpVars, browserVars>>

NewProc == [pc |-> "start", alive |-> TRUE, seen |-> 0, live |-> FALSE,
            sawLive |-> FALSE, got |-> FALSE]

\* the processes are about to call acquireLock; the file is absent or stale
InitLock ==
  /\ now = Epoch
  /\ VadUnused
  /\ ScenUnused
  /\ AllowUnused
  /\ CallUnused
  /\ LedgerUnused
  /\ RateUnused
  /\ WsUnused
  /\ StoreUnused
  /\ EmUnused
  /\ CodecUnused
  /\ SockUnused
  /\ TotpUnused
  /\ BrowserUnused
  /\ lockFile \in {0, StalePid}
  /\ procs = [p \in LockPids |-> NewProc]

\* process.kill(pid, 0) does not throw: the pid names a process that runs
IsAlive(ps, pid) == pid \in DOMAIN ps /\ ps[pid].alive

\* await readFile(LOCK_FILE).catch(() => null), and the probe of the pid
\* that was read
LockRead(p) ==
  /\ procs[p].alive
  /\ procs[p].pc = "start"
  /\ procs' = [procs EXCEPT ![p].pc = "read", ![p].seen = lockFile,
                            ![p].live = lockFile # 0 /\ IsAlive(procs, lockFile)]
  /\ UNCHANGED <<lockFile, lockRest>>

\* the lock names a live process: acquireLock returns false, the startup
\* code calls process.exit(1) and the exit handler unlinks the lock file
LockRefused(p) ==
  /\ procs[p].alive
  /\ procs[p].pc = "read"
  /\ procs[p].live
  /\ procs' = [procs EXCEPT ![p].pc = "exited", ![p].alive = FALSE,
                            ![p].sawLive = TRUE]
  /\ lockFile' = 0
  /\ UNCHANGED lockRest

\* no lock, or a lock that names no live process: writeFile(pid), true
LockWrite(p) ==
  /\ procs[p].alive
  /\ procs[p].pc = "read"
  /\ ~procs[p].live
  /\ lockFile' = p
  /\ procs' = [procs EXCEPT ![p].pc = "running", ![p].got = TRUE]
  /\ UNCHANGED lockRest

\* SIGINT or SIGTERM: releaseLock unlinks the file, then the process exits
Shutdown(p) ==
  /\ procs[p].alive
  /\ procs[p].pc = "running"
  /\ lockFile' = 0
  /\ procs' = [procs EXCEPT ![p].pc = "exited", ![p].alive = FALSE]
  /\ UNCHANGED lockRest

\* the process is killed without a handler running: the file stays
Crash(p) ==
  /\ procs[p].alive
  /\ procs[p].pc = "running"
  /\ procs' = [procs EXCEPT ![p].pc = "exited", ![p].alive = FALSE]
  /\ UNCHANGED <<lockFile, lockRest>>

NextLock ==
  \/ \E p \in LockPids : LockRead(p)
  \/ \E p \in LockPids : LockRefused(p)
  \/ \E p \in LockPids : LockWrite(p)
  \/ \E p \in LockPids : Shutdown(p)
  \/ \E p \in LockPids : Crash(p)

SpecLock == InitLock /\ [][NextLock]_vars

\* ---- vocabulary of the lock claim ----
Holders == {p \in LockPids : procs[p].alive /\ procs[p].got}
Decided(p) == procs[p].got \/ procs[p].sawLive

\* C37: of the relay processes that run acquireLock, under any
\* interleaving, at most one that got true is alive at a time; a process is
\* refused exactly when the lock it read names a live process, and takes
\* the lock when it is absent or names a dead one
C37_OneInstance ==
  /\ Cardinality(Holders) <= 1
  /\ \A p \in LockPids :
        Decided(p) => (procs[p].got <=> ~procs[p].sawLive)

\* two processes read the file before either wrote it
C37_BothAcquired ==
  /\ Cardinality(Holders) = 2
  /\ \A p \in Holders : procs[p].seen = 0

\* a process took the lock while the holder was alive, after a refused
\* process had unlinked the holder's file on its way out
C37_AcquiredAfterRefusal ==
  /\ Cardinality(Holders) = 2
  /\ \E q \in LockPids : procs[q].sawLive
  /\ \E p \in Holders : lockFile = p /\ procs[p].seen = 0

\* a process took over a lock that named a dead process
C37_StaleTakenOver ==
  \E p \in Holders : procs[p].seen # 0 /\ lockFile = p

\* what does hold: a process is refused exactly when the pid it read was
\* alive when it was read, and a process that got true wrote its pid
C37_RefusedOnlyByLive ==
  [][\A p \in LockPids :
       /\ (procs'[p].pc = "read" /\ procs[p].pc = "start")
            => (procs'[p].live <=>
                  (lockFile # 0 /\ IsAlive(procs, lockFile)))
       /\ (procs'[p].sawLive /\ ~procs[p].sawLive) => procs[p].live
       /\ (procs'[p].got /\ ~procs[p].got)
            => (lockFile' = p /\ ~procs[p].live)]_vars


(***************************************************************************)
(* The TOTP gate of /rule_modify (src/unnamed/part_004, relay.ts, and      *)
(* src/src/totp.ts).  Texts and rule ids are sequences of characters.  The *)
(* code of a 30 s period is written as the six-digit, zero-padded number   *)
(* of the period.                                                          *)
(***************************************************************************)
\* String.prototype.toUpperCase, one character at a time
toUpperCase(ch) ==
  LET Letters ==
        <<"a", "b", "c", "d", "e", "f", "g", "h", "i", "j", "k", "l", "m", "n", "o", "p", "q", "r", "s", "t", "u", "v", "w", "x", "y", "z">>
      Capitals ==
        <<"A", "B", "C", "D", "E", "F", "G", "H", "I", "J", "K", "L", "M", "N", "O", "P", "Q", "R", "S", "T", "U", "V", "W", "X", "Y", "Z">>
  IN  IF \E i \in 1..Len(Letters) : Letters[i] = ch
      THEN Capitals[CHOOSE i \in 1..Len(Letters) : Letters[i] = ch]
      ELSE ch

Uppered(text) == [i \in 1..Len(text) |-> toUpperCase(text[i])]

\* String.prototype.trim
RECURSIVE trim(_)
trim(text) ==
  IF text = <<>> THEN <<>>
  ELSE IF Head(text) = " " THEN trim(Tail(text))
  ELSE IF text[Len(text)] = " " THEN trim(SubSeq(text, 1, Len(text) - 1))
  ELSE text

Digits == {"0", "1", "2", "3", "4", "5", "6", "7", "8", "9"}

\* /^\d{6}$/.test(text)
IsSixDigits(text) == Len(text) = 6 /\ \A i \in 1..6 : text[i] \in Digits

HARD_RULE_IDS ==
  <<
    <<"S", "E", "C", "-", "H", "-", "0", "0", "1">>,
    <<"S", "E", "C", "-", "H", "-", "0", "0", "2">>,
    <<"S", "E", "C", "-", "H", "-", "0", "0", "3">>,
    <<"S", "E", "C", "-", "H", "-", "0", "0", "4">>,
    <<"D", "E", "V", "-", "H", "-", "0", "0", "1">>,
    <<"D", "E", "V", "-", "H", "-", "0", "0", "2">>,
    <<"D", "E", "V", "-", "H", "-", "0", "0", "3">>,
    <<"M", "E", "M", "-", "H", "-", "0", "0", "1">>,
    <<"C", "O", "M", "-", "H", "-", "0", "0", "1">>,
    <<"C", "O", "M", "-", "H", "-", "0", "0", "2">>,
    <<"C", "O", "M", "-", "H", "-", "0", "0", "3">>,
    <<"C", "O", "S", "T", "-", "H", "-", "0", "0", "1">>,
    <<"C", "O", "S", "T", "-", "H", "-", "0", "0", "2">>
  >>

\* isHardRule that only looks the id up in the list
isHardRuleListedOnly(ruleId) ==
  \E i \in 1..Len(HARD_RULE_IDS) : HARD_RULE_IDS[i] = Uppered(ruleId)

isHardRule(ruleId) ==
  \/ \E i \in 1..Len(HARD_RULE_IDS) : HARD_RULE_IDS[i] = Uppered(ruleId)
  \/ includes(ruleId, <<"-", "H", "-">>)

totpPeriodMs == 30000    \* period: 30
totpWindow   == 1        \* validate({ token, window: 1 })
totpTtlMs    == 90000    \* Date.now() + 90_000

\* the digits of n, zero-padded to six
SixDigitsOf(n) ==
  LET d(k) == <<"0", "1", "2", "3", "4", "5", "6", "7", "8", "9">>
                [((n \div (10 ^ k)) % 10) + 1]
  IN  <<d(5), d(4), d(3), d(2), d(1), d(0)>>

\* the token the authenticator shows in the period that holds time t
CodeAt(t) == SixDigitsOf(t \div totpPeriodMs)

\* verifyTOTP that accepts any code once TOTP is configured
verifyTOTPAnyCode(tp, code, t) == tp # "null"

\* verifyTOTP: the code is that of the current period or of a neighbour
verifyTOTP(tp, code, t) ==
  /\ tp # "null"
  /\ \E d \in (0 - totpWindow)..totpWindow :
        /\ t \div totpPeriodMs + d >= 0
        /\ code = SixDigitsOf(t \div totpPeriodMs + d)

isTOTPConfigured(tp) == tp # "null"

(***************************************************************************)
(* Specification SpecTotp: commands and texts of the authorised user,      *)
(* handled one update at a time, with the clock moving in between.         *)
(***************************************************************************)
TotpHorizonMs == 100000   \* the clock stops this long after Epoch
MaxChatHistory == 1       \* texts stored and forwarded in one behaviour

RuleArgs ==
  {
    <<>>,
    <<" ", "s", "e", "c", "-", "h", "-", "0", "0", "1", " ">>,
    <<"D", "E", "V", "-", "S", "-", "0", "0", "1">>,
    <<"x", "-", "h", "-", "9">>
  }

TotpDelays == {totpTtlMs, totpTtlMs + 1}

\* texts the user may send at time t: the code of the period and of periods
\* up to two away, the code between blanks, five and seven digits, a word
TotpTexts(t) ==
  {SixDigitsOf(t \div totpPeriodMs + d) : d \in 0..2}
    \cup {SixDigitsOf(t \div totpPeriodMs - d) :
            d \in {e \in 1..2 : t \div totpPeriodMs - e >= 0}}
    \cup {<<" ">> \o CodeAt(t) \o <<" ">>,
          SubSeq(CodeAt(t), 1, 5),
          CodeAt(t) \o <<"0">>,
          <<"h", "e", "l", "l", "o">>}

totpRest == <<vadVars, scenVars, allowVars, callVars, ledgerVars, rateVars,
              wsVars, storeVars, emVars, codecVars, sockVars, lockVars,
              browserVars>>

InitTotp ==
  /\ now = Epoch
  /\ VadUnused
  /\ ScenUnused
  /\ AllowUnused
  /\ CallUnused
  /\ LedgerUnused
  /\ RateUnused
  /\ WsUnused
  /\ StoreUnused
  /\ EmUnused
  /\ CodecUnused
  /\ SockUnused
  /\ LockUnused
  /\ BrowserUnused
  /\ totp \in {"null", "configured"}
  /\ pendingTOTP = NoPending
  /\ chatHistory = <<>>
  /\ totpLast = [op |-> "none"]

TotpOp(op, ruleId, text, reply) ==
  [op |-> op, ruleId |-> ruleId, text |-> text, reply |-> reply,
   at |-> now, before |-> pendingTOTP, stored |-> Len(chatHistory)]

\* bot.command("rule_modify")
RuleModify(match) ==
  LET ruleId == Uppered(trim(match))
  IN  /\ IF ruleId = <<>>
         THEN /\ totpLast' = TotpOp("rule_modify", ruleId, <<>>, "usage")
              /\ UNCHANGED pendingTOTP
         ELSE IF isHardRule(ruleId)
         THEN IF ~isTOTPConfigured(totp)
              THEN /\ totpLast' = TotpOp("rule_modify", ruleId, <<>>,
                                         "not configured")
                   /\ UNCHANGED pendingTOTP
              ELSE /\ pendingTOTP' = [pending |-> TRUE, ruleId |-> ruleId,
                                      expiresAt |-> now + totpTtlMs]
                   /\ totpLast' = TotpOp("rule_modify", ruleId, <<>>,
                                         "enter code")
         ELSE /\ totpLast' = TotpOp("rule_modify", ruleId, <<>>, "describe")
              /\ UNCHANGED pendingTOTP
      /\ UNCHANGED <<now, totp, chatHistory, totpRest>>

\* bot.on("message:text"): the TOTP branch, or the text is stored in the
\* history and forwarded to Claude
TextMessage(text) ==
  /\ IF pendingTOTP.pending /\ IsSixDigits(trim(text))
     THEN /\ IF now > pendingTOTP.expiresAt
             THEN /\ pendingTOTP' = NoPending
                  /\ totpLast' = TotpOp("text", pendingTOTP.ruleId, text,
                                        "expired")
             ELSE IF verifyTOTP(totp, trim(text), now)
             THEN /\ pendingTOTP' = NoPending
                  /\ totpLast' = TotpOp("text", pendingTOTP.ruleId, text,
                                        "describe")
             ELSE /\ totpLast' = TotpOp("text", pendingTOTP.ruleId, text,
                                        "incorrect")
                  /\ UNCHANGED pendingTOTP
          /\ UNCHANGED chatHistory
     ELSE /\ Len(chatHistory) < MaxChatHistory
          /\ chatHistory' = Append(chatHistory, text)
          /\ totpLast' = TotpOp("text", <<>>, text, "claude")
          /\ UNCHANGED pendingTOTP
  /\ UNCHANGED <<now, totp, totpRest>>

TotpTick(dt) ==
  /\ now + dt <= Epoch + TotpHorizonMs
  /\ now' = now + dt
  /\ UNCHANGED <<totpVars, totpRest>>

NextTotp ==
  \/ \E match \in RuleArgs : RuleModify(match)
  \/ \E text \in TotpTexts(now) : TextMessage(text)
  \/ \E dt \in TotpDelays : TotpTick(dt)

SpecTotp == InitTotp /\ [][NextTotp]_vars

\* ---- vocabulary of the TOTP claim ----
WasRuleModify == totpLast.op = "rule_modify"
WasText == totpLast.op = "text"
HardRule(ruleId) ==
  \/ \E i \in 1..Len(HARD_RULE_IDS) : HARD_RULE_IDS[i] = ruleId
  \/ \E i \in 1..(Len(ruleId) - 2) :
        ruleId[i] = "-" /\ ruleId[i + 1] = "H" /\ ruleId[i + 2] = "-"
CodeSent == IsSixDigits(trim(totpLast.text))
CorrectCode ==
  \E d \in {-1, 0, 1} :
     /\ totpLast.at \div 30000 + d >= 0
     /\ trim(totpLast.text) = SixDigitsOf(totpLast.at \div 30000 + d)
WasPending == totpLast.before.pending
Expired == totpLast.at > totpLast.before.expiresAt
\* everything the claim says about a six-digit message and about the prompt
GateHolds ==
  /\ (totpLast.op # "none" /\ totpLast.reply = "describe"
        /\ HardRule(totpLast.ruleId)) =>
       /\ WasText /\ WasPending /\ CodeSent /\ CorrectCode /\ ~Expired
       /\ totpLast.before.ruleId = totpLast.ruleId
  /\ (WasText /\ WasPending /\ CodeSent) =>
       /\ Len(chatHistory) = totpLast.stored
       /\ totpLast.reply # "claude"
       /\ Expired => (pendingTOTP = NoPending /\ totpLast.reply = "expired")
       /\ (~Expired /\ ~CorrectCode) =>
            (pendingTOTP = totpLast.before /\ totpLast.reply = "incorrect")
       /\ (~Expired /\ CorrectCode) =>
            (pendingTOTP = NoPending /\ totpLast.reply = "describe")

\* C36: /rule_modify on a HARD rule sets a pending verification that expires
\* 90 s later; the prompt to describe the modification of a HARD rule comes
\* only after a correct six-digit code that is not past the expiry; a code
\* past the expiry clears the pending state and is rejected, an incorrect
\* one in time leaves it unchanged, a correct one clears it; a six-digit
\* message while a verification is pending is neither stored nor forwarded
C36_HardRulesNeedTotp ==
  /\ (WasRuleModify /\ HardRule(totpLast.ruleId)) =>
       pendingTOTP = [pending |-> TRUE, ruleId |-> totpLast.ruleId,
                      expiresAt |-> totpLast.at + 90000]
  /\ GateHolds

\* C36, with the case of a relay that has no TOTP secret: there the command
\* on a HARD rule is turned down, nothing becomes pending and the prompt is
\* never issued
C36_HardRulesNeedConfiguredTotp ==
  /\ (WasRuleModify /\ HardRule(totpLast.ruleId)) =>
       IF totp # "null"
       THEN pendingTOTP = [pending |-> TRUE, ruleId |-> totpLast.ruleId,
                           expiresAt |-> totpLast.at + 90000]
       ELSE /\ pendingTOTP = totpLast.before
            /\ totpLast.reply = "not configured"
  /\ GateHolds

\* the prompt was issued for a HARD rule on a code sent at the very instant
\* of expiry
C36_PromptOnCodeAtExpiry ==
  /\ WasText /\ WasPending /\ CodeSent /\ CorrectCode
  /\ totpLast.at = totpLast.before.expiresAt
  /\ totpLast.reply = "describe"
  /\ pendingTOTP = NoPending

\* a correct code one millisecond past the expiry was rejected
C36_CodeAfterExpiry ==
  /\ WasText /\ WasPending /\ CodeSent /\ CorrectCode
  /\ totpLast.at = totpLast.before.expiresAt + 1
  /\ totpLast.reply = "expired"
  /\ pendingTOTP = NoPending

\* a code two periods old was turned down in time, the verification stays
C36_WrongCodeKept ==
  /\ WasText /\ WasPending /\ CodeSent /\ ~CorrectCode /\ ~Expired
  /\ pendingTOTP = totpLast.before

\* /rule_modify on a HARD rule with no TOTP secret configured
C36_NotConfigured ==
  /\ WasRuleModify
  /\ HardRule(totpLast.ruleId)
  /\ totp = "null"
  /\ pendingTOTP = NoPending

=============================================================================
